---- MODULE Spec2Model ----
(***************************************************************************)
(* A model of status.scijava.org: the GitHub issue client (github.py), the *)
(* scoring functions (report.py) and the issue statistics of the           *)
(* aggregator (status.py).                                                 *)
(*                                                                         *)
(* Python values are modelled with one TLA+ shape per kind, because TLC    *)
(* compares only values of the same shape:                                 *)
(*   - a str made of query terms or path segments is a sequence of them;   *)
(*   - None is a record of the same shape with kind/present switched off;  *)
(*   - a list is a sequence, a dict with fixed keys is a record.           *)
(***************************************************************************)
EXTENDS Integers, Sequences, FiniteSets, TLC

VARIABLES
    \* ---- GitHubIssues object and the download in progress (github.py)
    pc,          \* position of the caller: idle, loop, wait, sleep, returned, raised
    tracker,     \* which tracker answers: "any" (every response), "double",
                 \* "flaky" or "strict"
    matching,    \* the open items the strict tracker holds, oldest first
    items,       \* self._items
    i,           \* iterations of `for _ in range(self._max_requests)` started so far
    url,         \* local variable url of download
    requested,   \* URL of the request issued last (requests.get argument)
    response,    \* the response received last
    inflight,    \* number of requests issued and not yet answered
    \* ---- history of the download (observations, never read by the code)
    prior,       \* self._items when download was called
    pages,       \* concatenation of result['items'] of every page fetched, in order
    fetches,     \* number of requests issued
    overflows,   \* number of requests issued to an overflow continuation URL
    sleeps,      \* number of time.sleep calls completed
    sinceFetch,  \* seconds slept since the last fetch completed
    firstPage,   \* length of the first page fetched, -1 before
    \* ---- the other methods of the GitHubIssues object (github.py)
    file,        \* the JSON file save writes and load reads
    result,      \* self._items of the collection the last repo() returned
    op,          \* the method called last, with its arguments
    before,      \* self._items when that method was called
    saved,       \* self._items when save was called last
    \* ---- one component record on its way through status.py and report.py
    comp,        \* the record c: release, snapshot and issues sections
    timestamps,  \* the entry of timestamps.txt for the record's groupId:artifactId
    stage,       \* "cataloged" before the issue statistics are computed, then "augmented"
    score,       \* the scoring function of report.py called last and what it returned
    given,       \* which instants the record's timestamps were built from
    \* ---- the repository storage and one MavenComponent (maven.py)
    storage,     \* the files under /opt/sonatype-work/nexus/storage of one coordinate
    mc,          \* the MavenComponent under construction and the calls it has made
    \* ---- one run of the aggregator (status.py run)
    cache,       \* the directory .cache and its file maven.json (issues.json is file)
    bom,         \* the list of records, bom
    run          \* position of run, its local orgs, and the calls it has made

\* the variables of a download, self._items apart
dlVars == <<pc, tracker, matching, i, url, requested, response, inflight,
            prior, pages, fetches, overflows, sleeps, sinceFetch, firstPage>>

\* the variables of the other methods
setVars == <<file, result, op, before, saved>>

\* the variables of the component record and its scores
scoreVars == <<comp, timestamps, stage, score, given>>

\* the variables of the coordinate being resolved
mavenVars == <<storage, mc>>

\* the variables of a run of the aggregator, ghi and issues.json apart
runVars == <<cache, bom, run>>

vars == <<dlVars, items, setVars, scoreVars, mavenVars, runVars>>

----------------------------------------------------------------------------
(* Bounds of the model *)

\* most items the tracker serves in one download before it only serves Filler;
\* a page holds at most as many
MaxItems == 2
\* distinct "next" links the tracker can hand out
MaxLinks == 1
\* items on a page of the strict tracker (per_page)
PageSize == 1
\* results of one search the strict tracker pages through before it refuses:
\* the model's scale of the search API's 1000
Window == 2

(* Program constants *)

\* self._delay_per_request
delay_per_request == 5
\* self._max_requests
max_requests == 100
\* the search API's result ceiling tested by _download_page
ResultCeiling == 1000

----------------------------------------------------------------------------
(* Values *)

RECURSIVE SeqsUpTo(_, _)
\* all sequences over S of length at most n
SeqsUpTo(S, n) ==
    IF n = 0 THEN {<<>>}
    ELSE LET shorter == SeqsUpTo(S, n - 1)
         IN shorter \cup {Append(s, x) : s \in {t \in shorter : Len(t) = n - 1}, x \in S}

\* a query term "op:arg", e.g. user:scijava, is:open, created:>2019-01-04T16:41:24Z
Term(operator, arg) == [op |-> operator, arg |-> arg]

\* the query main() and fetch_issues() pass: "user:<org>"
Query == <<Term("user", "scijava")>>

\* no URL: Python's None for a URL
NoUrl == [kind |-> "none", q |-> <<>>, link |-> 0]

\* the URL of a "next" link handed out by the tracker
LinkUrl(n) == [kind |-> "link", q |-> <<>>, link |-> n]

\* a repository_url, split at "/": https://api.github.com/repos/<org>/<repo>
RepoUrl(org, rep) == <<"https:", "", "api.github.com", "repos", org, rep>>

\* a tracker item as download sees it: a JSON object of which download reads
\* the creation time, and the statistics the other members
DLItem(t) ==
    [repository_url |-> RepoUrl("scijava", "pom-scijava"), created_at |-> <<t>>,
     updated_at |-> <<t>>, labels |-> <<>>, milestone |-> <<>>, assignees |-> <<>>]

\* created_at values of the tracker's items
CreatedTimes == {"2019-01-04T16:41:24Z", "2020-02-29T23:00:00Z"}

DLItems == {DLItem(t) : t \in CreatedTimes}

\* the tracker's timestamps, oldest first
TimeOrder == <<"2019-01-04T16:41:24Z", "2020-02-29T23:00:00Z">>

\* the item the tracker keeps serving once MaxItems items have been served
Filler == DLItem("2019-01-04T16:41:24Z")

\* the method called last: none yet
NoOp == [name |-> "none", org |-> "", repo |-> ""]

\* no file at the path
NoFile == [exists |-> FALSE, text |-> <<>>]

\* the response of a request: ok is FALSE for a transport or HTTP error;
\* next is 0 when response.links has no 'next', else the number of the link
Response(ok, its, total, next) ==
    [ok |-> ok, items |-> its, total_count |-> total, next |-> next]

NoResponse == Response(FALSE, <<>>, 0, 0)

\* total_count values on both sides of the ceiling
TotalCounts == {ResultCeiling, ResultCeiling + 1}

\* the pages the tracker can serve when n items have been served already
PagesAt(n) ==
    IF n < MaxItems
    THEN SeqsUpTo(DLItems, MaxItems - n)
    ELSE IF tracker \in {"double", "flaky"} THEN {<<>>, <<Filler>>} ELSE {<<>>}

\* the bound of the "created:>" term of a query, as a position in TimeOrder;
\* 0 for a query without the term
created_bound(q) ==
    LET terms == SelectSeq(q, LAMBDA t : t.op = "created:>")
    IN IF terms = <<>> THEN 0
       ELSE CHOOSE k \in 1..Len(TimeOrder) : TimeOrder[k] = terms[1].arg

\* the response of the strict tracker to the request in flight: the items
\* created strictly after the query's bound, oldest first, a page at a time;
\* a "next" link while the page ends within the first Window results, its
\* number telling the bound and the page; total_count is above the ceiling
\* where more than Window items match
StrictResponse ==
    LET bound == IF requested.kind = "search" THEN created_bound(requested.q)
                 ELSE requested.link \div (Window + 1)
        page == IF requested.kind = "search" \/ requested.link = 0 THEN 1
                ELSE requested.link % (Window + 1)
        found == SelectSeq(matching,
                     LAMBDA it : \E k \in 1..Len(TimeOrder) :
                                    TimeOrder[k] = it.created_at[1] /\ k > bound)
        reach == IF Len(found) < Window THEN Len(found) ELSE Window
        last == IF page * PageSize < reach THEN page * PageSize ELSE reach
    IN Response(TRUE,
                IF last <= (page - 1) * PageSize THEN <<>>
                ELSE SubSeq(found, (page - 1) * PageSize + 1, last),
                ResultCeiling - Window + Len(found),
                IF last < reach THEN bound * (Window + 1) + page + 1 ELSE 0)

\* the responses the tracker can give now: the double reports more results
\* than the ceiling and no "next" link; the flaky tracker never a "next" link,
\* and it may fail
Responses ==
    IF tracker = "strict" THEN {StrictResponse}
    ELSE IF tracker = "double"
    THEN {Response(TRUE, p, ResultCeiling + 1, 0) : p \in PagesAt(Len(pages))}
    ELSE IF tracker = "flaky"
    THEN {NoResponse} \cup
         {Response(TRUE, p, t, 0) : p \in PagesAt(Len(pages)), t \in TotalCounts}
    ELSE {NoResponse} \cup
         {Response(TRUE, p, t, n) :
            p \in PagesAt(Len(pages)), t \in TotalCounts, n \in 0..MaxLinks}

----------------------------------------------------------------------------
(* Component records (maven.py status, status.py run) *)

\* the release or snapshot section of a record; lastUpdated is the decimal text
\* of the int, <<>> for None
Metadata(updated) == [present |-> TRUE, lastUpdated |-> updated]

\* a release or snapshot section that is None
NoMetadata == [present |-> FALSE, lastUpdated |-> <<>>]

\* a Counter with no entries
NoCounter == [k \in {} |-> 0]

\* c["issues"] = None
NoIssues ==
    [present |-> FALSE, org |-> "", repo |-> "", count |-> 0, prs |-> 0,
     drafts |-> 0, unscheduled |-> 0, labels |-> NoCounter, milestones |-> NoCounter,
     oldest |-> <<>>, updated |-> <<>>, assignees |-> NoCounter]

\* c["issues"] = {"org": org, "repo": repo}: the statistics are not there yet
BareIssues(org, rep) == [NoIssues EXCEPT !.present = TRUE, !.org = org, !.repo = rep]

\* a Python int written in base 24*60*60: hi * 86400 + lo with 0 <= lo < 86400
\* (the seconds since year 1 do not fit TLC's 32-bit integers)
PyInt(hi, lo) == [hi |-> hi, lo |-> lo]

\* int(n) of a small n as a Python int
PyFromInt(n) == PyInt(n \div 86400, n % 86400)

\* a + b of two Python ints
PyAdd(a, b) == PyInt(a.hi + b.hi + ((a.lo + b.lo) \div 86400), (a.lo + b.lo) % 86400)

\* get(dev, 'roles') of a developer entry without a roles key: None
NoRoles == [present |-> FALSE, list |-> <<>>]

\* get(dev, 'roles') of a developer entry with the roles listed
Roles(list) == [present |-> TRUE, list |-> list]

\* dev['roles'] of a developer whose <roles> element has no children:
\* MavenPOM.developers stores the element's text, None
NullRoles == [present |-> TRUE, list |-> <<>>, null |-> TRUE]

\* dev['id'] of a developer whose <id> element is empty: None, where the other
\* developers have a str
PyNone == "None"

\* what a scoring function returned: an int, None (absent), or it raised;
\* roles are those of the developer developer_score was called for
NoScore ==
    [fn |-> "none", raised |-> FALSE, absent |-> FALSE, value |-> PyInt(0, 0),
     roles |-> NoRoles]

\* no record is being scored
InitNoRecord ==
    /\ comp = [release |-> NoMetadata, snapshot |-> NoMetadata, issues |-> NoIssues]
    /\ timestamps = <<>>
    /\ stage = "cataloged"
    /\ score = NoScore
    /\ given = [release |-> 0, snapshot |-> 0, override |-> 0]

\* the result of _metadata or _pom: None
NoPick == [present |-> FALSE, store |-> 0, file |-> 0]

\* the result of _metadata or _pom: the file of that number in the directory of
\* the store of that number (file 0 for maven-metadata.xml and for a release pom)
Pick(store, number) == [present |-> TRUE, store |-> store, file |-> number]

\* a MavenComponent whose constructor has not started
NoComponent ==
    [pc |-> "new", error |-> "none", release |-> NoPick, snapshot |-> NoPick,
     pom |-> NoPick, pom_version |-> <<>>, calls |-> <<>>]

\* a run of the aggregator that has not started; had_bom and had_issues tell
\* whether maven.json and issues.json existed when it started, snapshot_bom and
\* snapshot_issues are the records and the items they were written from;
\* error is the exception that ended the run and logged the message of
\* logging.error; root tells what maven.process found of the root component
NoRun ==
    [pc |-> "start", error |-> "none", logged |-> "none", root |-> "none",
     orgs |-> <<>>, query |-> <<>>,
     process_calls |-> 0, download_calls |-> 0,
     had_bom |-> FALSE, had_issues |-> FALSE,
     snapshot_bom |-> <<>>, snapshot_issues |-> <<>>]

\* no coordinate is being resolved, and the aggregator is not running
InitNoComponent ==
    /\ storage = [release |-> <<>>, snapshot |-> <<>>]
    /\ mc = NoComponent
    /\ cache = [dir |-> FALSE, bom_file |-> NoFile]
    /\ bom = <<>>
    /\ run = NoRun

----------------------------------------------------------------------------
(* github.py: GitHubIssues.download and _download_page *)

\* _search_url:
\* f"https://api.github.com/search/issues?q={query}+is:open&sort=created&order=asc&per_page=100"
search_url(query) == [kind |-> "search", q |-> query \o <<Term("is", "open")>>, link |-> 0]

\* _download_page without the overflow continuation of lines 125-127
download_page_no_overflow(resp, query) ==
    IF resp.next # 0 THEN LinkUrl(resp.next) ELSE NoUrl

\* _download_page with the overflow test of line 125 taken before the "next" link
download_page_overflow_first(resp, query) ==
    IF resp.total_count > ResultCeiling /\ Len(resp.items) > 0
    THEN search_url(query \o
             <<Term("created:>", resp.items[Len(resp.items)].created_at[1])>>)
    ELSE IF resp.next # 0 THEN LinkUrl(resp.next) ELSE NoUrl

\* _download_page lines 124-128: the URL returned for a successful response
download_page_next(resp, query) ==
    LET next_url == IF resp.next # 0 THEN LinkUrl(resp.next) ELSE NoUrl
    IN IF next_url = NoUrl /\ resp.total_count > ResultCeiling /\ Len(resp.items) > 0
       THEN search_url(query \o
                <<Term("created:>", resp.items[Len(resp.items)].created_at[1])>>)
       ELSE next_url

\* extend that skips the items the list holds already
extend_new_only(its, more) ==
    its \o SelectSeq(more, LAMBDA x : \A k \in 1..Len(its) : its[k] # x)

\* items after `self._items.extend(result['items'])`
extend(its, more) == its \o more

\* a sleep of delay_per_request milliseconds: no whole second
sleep_milliseconds == delay_per_request \div 1000

\* what time.sleep(self._delay_per_request) adds to the time slept
sleep_seconds == delay_per_request

\* a loop that runs once more than the ceiling
loop_bound_inclusive == max_requests + 1

\* the bound of `for _ in range(self._max_requests)`
loop_bound == max_requests

\* the query argument of the download: that of fetch_issues while status.run
\* downloads, else user:scijava
download_query == IF run.pc = "download" THEN run.query ELSE Query

\* download line 108, called with query q:
\* url = GitHubIssues._search_url(query)
Start(q) ==
    /\ pc = "idle"
    /\ pc' = "loop"
    /\ url' = search_url(q)
    /\ i' = 0
    /\ prior' = items
    /\ pages' = <<>>
    /\ fetches' = 0
    /\ overflows' = 0
    /\ sleeps' = 0
    /\ sinceFetch' = 0
    /\ firstPage' = -1
    /\ UNCHANGED <<tracker, matching, requested, response, inflight>>

\* download("user:scijava") on an object
Download ==
    /\ Start(Query)
    /\ UNCHANGED items
    /\ UNCHANGED <<setVars, scoreVars, mavenVars, runVars>>

\* download line 109-110 and _download_page line 119: the next iteration of the
\* loop issues requests.get(url)
Request ==
    /\ pc = "loop"
    /\ i < loop_bound
    /\ pc' = "wait"
    /\ i' = i + 1
    /\ requested' = url
    /\ inflight' = inflight + 1
    /\ fetches' = fetches + 1
    /\ overflows' = IF url.kind = "search" /\ url # search_url(download_query)
                    THEN overflows + 1 ELSE overflows
    /\ UNCHANGED <<tracker, matching, items, url, response, prior, pages, sleeps,
                   sinceFetch, firstPage>>
    /\ UNCHANGED <<setVars, scoreVars, mavenVars, runVars>>

\* a download that raises when range(max_requests) is exhausted
Exhausted_raising ==
    /\ pc = "loop"
    /\ i >= loop_bound
    /\ pc' = "raised"
    /\ UNCHANGED <<tracker, matching, items, i, url, requested, response, inflight, prior,
                   pages, fetches, overflows, sleeps, sinceFetch, firstPage>>
    /\ UNCHANGED <<setVars, scoreVars, mavenVars, runVars>>

\* download line 109: range(self._max_requests) is exhausted, download returns
Exhausted ==
    /\ pc = "loop"
    /\ i >= loop_bound
    /\ pc' = "returned"
    /\ UNCHANGED <<tracker, matching, items, i, url, requested, response, inflight, prior,
                   pages, fetches, overflows, sleeps, sinceFetch, firstPage>>
    /\ UNCHANGED <<setVars, scoreVars, mavenVars, runVars>>

\* a download that waits and asks again after a failed request
Respond_retrying(resp) ==
    /\ pc = "wait"
    /\ response' = resp
    /\ inflight' = inflight - 1
    /\ sinceFetch' = 0
    /\ IF ~resp.ok
       THEN /\ pc' = "sleep"
            /\ UNCHANGED <<items, url, pages, firstPage>>
       ELSE /\ items' = extend(items, resp.items)
            /\ pages' = pages \o resp.items
            /\ firstPage' = IF firstPage = -1 THEN Len(resp.items) ELSE firstPage
            /\ url' = download_page_next(resp, download_query)
            /\ pc' = IF url' = NoUrl THEN "returned" ELSE "sleep"
    /\ UNCHANGED <<tracker, matching, i, requested, prior, fetches, overflows, sleeps>>
    /\ UNCHANGED <<setVars, scoreVars, mavenVars, runVars>>

\* _download_page lines 119-128 and download line 111: the response arrives;
\* raise_for_status raises on an error, else the page is appended and the next
\* URL decided; download breaks out of the loop when there is none
Respond(resp) ==
    /\ pc = "wait"
    /\ response' = resp
    /\ inflight' = inflight - 1
    /\ sinceFetch' = 0
    /\ IF ~resp.ok
       THEN /\ pc' = "raised"
            /\ UNCHANGED <<items, url, pages, firstPage>>
       ELSE /\ items' = extend(items, resp.items)
            /\ pages' = pages \o resp.items
            /\ firstPage' = IF firstPage = -1 THEN Len(resp.items) ELSE firstPage
            /\ url' = download_page_next(resp, download_query)
            /\ pc' = IF url' = NoUrl THEN "returned" ELSE "sleep"
    /\ UNCHANGED <<tracker, matching, i, requested, prior, fetches, overflows, sleeps>>
    /\ UNCHANGED <<setVars, scoreVars, mavenVars, runVars>>

\* download line 112: time.sleep(self._delay_per_request)
Sleep ==
    /\ pc = "sleep"
    /\ pc' = "loop"
    /\ sleeps' = sleeps + 1
    /\ sinceFetch' = sinceFetch + sleep_seconds
    /\ UNCHANGED <<tracker, matching, items, i, url, requested, response, inflight, prior,
                   pages, fetches, overflows, firstPage>>
    /\ UNCHANGED <<setVars, scoreVars, mavenVars, runVars>>

\* the tracker answers the request in flight
Answer == \E resp \in Responses : Respond(resp)

----------------------------------------------------------------------------
(* Specifications of one download *)

\* GitHubIssues.__init__: items given by the caller, or none
InitItems == {<<>>, <<DLItem("2020-02-29T23:00:00Z")>>}

\* no method called yet, no file written
InitSet ==
    /\ file = NoFile
    /\ result = <<>>
    /\ op = NoOp
    /\ before = <<>>
    /\ saved = <<>>

\* no download called yet
InitIdle ==
    /\ pc = "idle"
    /\ i = 0
    /\ url = NoUrl
    /\ requested = NoUrl
    /\ response = NoResponse
    /\ inflight = 0
    /\ prior = <<>>
    /\ pages = <<>>
    /\ fetches = 0
    /\ overflows = 0
    /\ sleeps = 0
    /\ sinceFetch = 0
    /\ firstPage = -1

InitObject == InitIdle /\ InitSet /\ InitNoRecord /\ InitNoComponent /\ items \in InitItems

InitDownload == InitObject /\ tracker = "any" /\ matching = <<>>

InitDouble == InitObject /\ tracker = "double" /\ matching = <<>>

NextDownload == Download \/ Request \/ Exhausted \/ Answer \/ Sleep

\* a download against any tracker
SpecDownload == InitDownload /\ [][NextDownload]_vars

\* the strict tracker holds any items in ascending order of creation
InitStrict ==
    /\ InitObject /\ tracker = "strict"
    /\ matching \in
          {[k \in 1..Len(ts) |-> DLItem(ts[k]) @@ [number |-> k]] :
              ts \in {t \in SeqsUpTo(CreatedTimes, Window + PageSize) :
                        \A a, b \in 1..Len(t) :
                            a < b => \E x, y \in 1..Len(TimeOrder) :
                                        x <= y /\ TimeOrder[x] = t[a] /\ TimeOrder[y] = t[b]}}

\* against the strict tracker every continuation raises the bound of the
\* query, and the loop ends before range(max_requests) is exhausted
StrictUnderCeiling == tracker = "strict" => i < loop_bound

NextStrict == Download \/ Request \/ Answer \/ Sleep

\* a download against the strict tracker
SpecStrict == InitStrict /\ [][NextStrict]_vars

\* a download against the tracker double that reports total_count > 1000 on
\* every page and never a "next" link; the caller runs until download ends
SpecDouble == InitDouble /\ [][NextDownload]_vars /\ WF_vars(NextDownload)

----------------------------------------------------------------------------
(* github.py: GitHubIssues.repo, load and save *)

\* most items of a collection given to the constructor
MaxIssues == 2

\* the organisations and repositories repo() is asked for
Orgs == {"scijava", "imagej"}

Repos == {"pom-scijava", "scijava-common"}

\* tracker items as JSON objects: the keys differ from item to item, every value
\* is shown as a sequence of strings
SetItems ==
    { [repository_url |-> RepoUrl("scijava", "pom-scijava"),
       created_at |-> <<"2019-01-04T16:41:24Z">>],
      [repository_url |-> RepoUrl("scijava", "scijava-common"),
       created_at |-> <<"2020-02-29T23:00:00Z">>,
       pull_request |-> <<"https://api.github.com/repos/scijava/scijava-common/pulls/7">>],
      [repository_url |-> RepoUrl("imagej", "pom-scijava"),
       created_at |-> <<"2019-01-04T16:41:24Z">>,
       draft |-> <<"false">>],
      [repository_url |-> RepoUrl("scijava", "pom-scijava") \o <<"issues">>,
       created_at |-> <<"2020-02-29T23:00:00Z">>] }

\* str.endswith for a string split at "/" and a suffix "/a/b/c" given as
\* <<a, b, c>>: the last segments are the suffix's and a "/" precedes them
endswith_path(segments, suffix) ==
    /\ Len(segments) > Len(suffix)
    /\ SubSeq(segments, Len(segments) - Len(suffix) + 1, Len(segments)) = suffix

\* a test that takes every repository of the org
in_repo_of_org(item, org, rep) ==
    endswith_path(SubSeq(item.repository_url, 1, Len(item.repository_url) - 1),
                  <<"repos", org>>)

\* the test of repo's comprehension: endswith(f'/repos/{org}/{repo}')
in_repo(item, org, rep) == endswith_path(item.repository_url, <<"repos", org, rep>>)

\* [item for item in self._items if ...endswith(f'/repos/{org}/{repo}')]
repo_items(its, org, rep) == SelectSeq(its, LAMBDA item : in_repo(item, org, rep))

\* repo that narrows the collection it is called on
repo_in_place(its, org, rep) ==
    [self_items |-> repo_items(its, org, rep), returned |-> repo_items(its, org, rep)]

\* repo(org, repo): self._items afterwards and the _items of the collection returned
repo(its, org, rep) == [self_items |-> its, returned |-> repo_items(its, org, rep)]

\* the keys of the tracker's JSON objects, in sort_keys order
KeyOrder == <<"assignees", "created_at", "draft", "labels", "milestone", "pom",
              "pull_request", "repository_url", "updated_at">>

\* json.dump of one object with sort_keys=True: its members in key order
json_object(obj) ==
    LET keys == SelectSeq(KeyOrder, LAMBDA k : k \in DOMAIN obj)
    IN [n \in 1..Len(keys) |-> [key |-> keys[n], value |-> obj[keys[n]]]]

\* json.dump that leaves out the last item of the list
json_dump_short(its) == [n \in 1..(Len(its) - 1) |-> json_object(its[n])]

\* json.dump(self._items, f, sort_keys=True, indent=4): the text of the file
json_dump(its) == [n \in 1..Len(its) |-> json_object(its[n])]

\* json.loads of one object: a dict of its members
json_loads_object(members) ==
    [k \in {members[n].key : n \in 1..Len(members)} |->
        (CHOOSE m \in {members[n] : n \in 1..Len(members)} : m.key = k).value]

\* json.loads(f.read()): the list of objects of the file
json_loads(text) == [n \in 1..Len(text) |-> json_loads_object(text[n])]

\* the object is not inside a call of download
AtRest == pc \in {"idle", "returned", "raised"}

\* ghi = GitHubIssues(): a new, empty collection
New ==
    /\ AtRest
    /\ items' = <<>>
    /\ op' = [name |-> "new", org |-> "", repo |-> ""]
    /\ before' = items
    /\ UNCHANGED <<file, result, saved>>
    /\ UNCHANGED <<dlVars, scoreVars, mavenVars, runVars>>

\* ghi.repo(org, repo)
Repo(org, rep) ==
    /\ AtRest
    /\ items' = repo(items, org, rep).self_items
    /\ result' = repo(items, org, rep).returned
    /\ op' = [name |-> "repo", org |-> org, repo |-> rep]
    /\ before' = items
    /\ UNCHANGED <<file, saved>>
    /\ UNCHANGED <<dlVars, scoreVars, mavenVars, runVars>>

\* ghi.save(filepath)
Save ==
    /\ AtRest
    /\ file' = [exists |-> TRUE, text |-> json_dump(items)]
    /\ saved' = items
    /\ op' = [name |-> "save", org |-> "", repo |-> ""]
    /\ before' = items
    /\ UNCHANGED <<items, result>>
    /\ UNCHANGED <<dlVars, scoreVars, mavenVars, runVars>>

\* ghi.load(filepath) of a file that exists: self._items.extend(result)
Load ==
    /\ AtRest
    /\ file.exists
    /\ Len(items) + Len(file.text) <= 2 * MaxIssues
    /\ items' = extend(items, json_loads(file.text))
    /\ op' = [name |-> "load", org |-> "", repo |-> ""]
    /\ before' = items
    /\ UNCHANGED <<file, result, saved>>
    /\ UNCHANGED <<dlVars, scoreVars, mavenVars, runVars>>

Filter == \E org \in Orgs, rep \in Repos : Repo(org, rep)

\* a collection built by the constructor from a list of items
InitIssues ==
    /\ InitIdle /\ InitSet /\ InitNoRecord /\ InitNoComponent
    /\ tracker = "any" /\ matching = <<>>
    /\ items \in SeqsUpTo(SetItems, MaxIssues)

NextIssues == New \/ Filter \/ Save \/ Load

\* the methods of a collection, called in any order
SpecIssues == InitIssues /\ [][NextIssues]_vars

----------------------------------------------------------------------------
(* maven.py: ts2dt, and the datetime arithmetic report.py does with it *)

\* the decimal digits
DigitValue ==
    [c \in {"0", "1", "2", "3", "4", "5", "6", "7", "8", "9"} |->
        CASE c = "0" -> 0 [] c = "1" -> 1 [] c = "2" -> 2 [] c = "3" -> 3
          [] c = "4" -> 4 [] c = "5" -> 5 [] c = "6" -> 6 [] c = "7" -> 7
          [] c = "8" -> 8 [] c = "9" -> 9]

\* the characters of text from position a to b are all digits: \d{b-a+1}
AllDigits(text, a, b) ==
    /\ Len(text) >= b
    /\ \A k \in a..b : text[k] \in DOMAIN DigitValue

RECURSIVE ToInt(_)
\* int() of a string of digits
ToInt(digits) ==
    IF digits = <<>> THEN 0
    ELSE 10 * ToInt(SubSeq(digits, 1, Len(digits) - 1)) + DigitValue[digits[Len(digits)]]

\* a datetime: the day's proleptic Gregorian ordinal (1 for 0001-01-01) and the
\* second of the day; ok is FALSE where Python raises ValueError instead
Datetime(ordinal, second) == [ok |-> TRUE, days |-> ordinal, secs |-> second]

NoDatetime == [ok |-> FALSE, days |-> 0, secs |-> 0]

IsLeap(y) == y % 4 = 0 /\ (y % 100 # 0 \/ y % 400 = 0)

DaysInMonth(y, m) ==
    IF m = 2 THEN (IF IsLeap(y) THEN 29 ELSE 28)
    ELSE IF m \in {4, 6, 9, 11} THEN 30 ELSE 31

RECURSIVE DaysBeforeMonth(_, _)
DaysBeforeMonth(y, m) ==
    IF m = 1 THEN 0 ELSE DaysBeforeMonth(y, m - 1) + DaysInMonth(y, m - 1)

DaysBeforeYear(y) ==
    (y - 1) * 365 + ((y - 1) \div 4) - ((y - 1) \div 100) + ((y - 1) \div 400)

\* datetime(y, m, d, hh, mm, ss)
datetime(y, m, d, hh, mm, ss) ==
    IF /\ y \in 1..9999 /\ m \in 1..12 /\ d >= 1 /\ d <= DaysInMonth(y, m)
       /\ hh \in 0..23 /\ mm \in 0..59 /\ ss \in 0..59
    THEN Datetime(DaysBeforeYear(y) + DaysBeforeMonth(y, m) + d,
                  hh * 3600 + mm * 60 + ss)
    ELSE NoDatetime

\* datetime0 = datetime.datetime(datetime.MINYEAR, 1, 1, 0, 0, 0)
datetime0 == datetime(1, 1, 1, 0, 0, 0)

\* ts2dt: re.match("(\d{4})(\d\d)(\d\d)\.?(\d\d)(\d\d)(\d\d)", ts), ValueError
\* when there is no match or the fields are no date
ts2dt(ts) ==
    LET t == IF Len(ts) >= 9 /\ ts[9] = "." THEN 9 ELSE 8
    IN IF AllDigits(ts, 1, 8) /\ AllDigits(ts, t + 1, t + 6)
       THEN datetime(ToInt(SubSeq(ts, 1, 4)), ToInt(SubSeq(ts, 5, 6)),
                     ToInt(SubSeq(ts, 7, 8)), ToInt(SubSeq(ts, t + 1, t + 2)),
                     ToInt(SubSeq(ts, t + 3, t + 4)), ToInt(SubSeq(ts, t + 5, t + 6)))
       ELSE NoDatetime

\* a < b for two datetimes
DatetimeLess(a, b) == a.days < b.days \/ (a.days = b.days /\ a.secs < b.secs)

\* min(a, b) of two datetimes
DatetimeMin(a, b) == IF DatetimeLess(a, b) THEN a ELSE b

\* max(a, b) of two datetimes
DatetimeMax(a, b) == IF DatetimeLess(a, b) THEN b ELSE a

\* int((a - b).total_seconds()): the timedelta's days and seconds are the two
\* digits of the int in base 86400
SecondsBetween(a, b) ==
    IF a.secs >= b.secs
    THEN PyInt(a.days - b.days, a.secs - b.secs)
    ELSE PyInt(a.days - b.days - 1, a.secs - b.secs + 86400)

\* max(0, n) of a Python int
PyMax0(n) == IF n.hi < 0 THEN PyInt(0, 0) ELSE n

\* a datetime == an int: the two types never compare equal
DatetimeEqualsInt(dt, n) == FALSE

----------------------------------------------------------------------------
(* github.py: GitHubIssue; status.py: the issue statistics of run *)

\* 'pull_request' in self._data
is_pr(item) == "pull_request" \in DOMAIN item

\* 'draft' in self._data
is_draft(item) == "draft" \in DOMAIN item

\* self._data['milestone']['title'] if self._data['milestone'] else None:
\* <<>> for None, else <<title>>
milestone(item) == item.milestone

\* [label['name'] for label in self._data['labels']]
labels(item) == item.labels

\* [assignee['login'] for assignee in self._data['assignees']]
assignees(item) == item.assignees

\* a str or None is true in a condition: it is neither None nor ''
Truthy(text) == text # <<>> /\ text # <<"">>

RECURSIVE Flatten(_)
\* [x for xs in lists for x in xs]
Flatten(lists) ==
    IF lists = <<>> THEN <<>>
    ELSE IF Len(lists) = 1 THEN lists[1]
    ELSE LET half == Len(lists) \div 2
         IN Flatten(SubSeq(lists, 1, half)) \o Flatten(SubSeq(lists, half + 1, Len(lists)))

\* Counter(list): how often each element occurs
Counter(list) ==
    [k \in {list[n] : n \in 1..Len(list)} |->
        Cardinality({n \in 1..Len(list) : list[n] = k})]

\* str(min(...)) or str(max(...)) of timestamps, None (<<>>) for no issues
Extreme(times, oldest) ==
    LET at == {k \in 1..Len(TimeOrder) : \E n \in 1..Len(times) : times[n] = TimeOrder[k]}
        pick == IF oldest THEN CHOOSE k \in at : \A j \in at : k <= j
                ELSE CHOOSE k \in at : \A j \in at : k >= j
    IN IF times = <<>> THEN <<>> ELSE <<TimeOrder[pick]>>

\* issue.milestone if issue.milestone else 'none'
milestone_key(item) == IF Truthy(milestone(item)) THEN milestone(item)[1] ELSE "none"

\* run, lines 109-126: the statistics of one record that uses GitHub Issues
issue_statistics(section, ghi) ==
    LET issues == repo(ghi, section.org, section.repo).returned
        n == Len(issues)
    IN [section EXCEPT
          !.count = n,
          !.prs = Cardinality({k \in 1..n : is_pr(issues[k])}),
          !.drafts = Cardinality({k \in 1..n : is_draft(issues[k])}),
          !.unscheduled =
              Cardinality({k \in 1..n : milestone(issues[k]) = <<"unscheduled">>}),
          !.labels = Counter(Flatten([k \in 1..n |-> labels(issues[k])])),
          !.milestones = Counter([k \in 1..n |-> milestone_key(issues[k])]),
          !.oldest = Extreme([k \in 1..n |-> issues[k].created_at[1]], TRUE),
          !.updated = Extreme([k \in 1..n |-> issues[k].updated_at[1]], FALSE),
          !.assignees = Counter(Flatten([k \in 1..n |-> assignees(issues[k])]))]

\* run, lines 109-126: `if not c["issues"]: continue`, else the statistics
Augment ==
    /\ stage = "cataloged"
    /\ AtRest
    /\ stage' = "augmented"
    /\ comp' = IF comp.issues.present
               THEN [comp EXCEPT !.issues = issue_statistics(comp.issues, items)]
               ELSE comp
    /\ UNCHANGED <<timestamps, score, given>>
    /\ UNCHANGED <<dlVars, items, setVars, mavenVars, runVars>>

----------------------------------------------------------------------------
(* report.py: the scoring functions *)

\* get(issues, name, key) or 0 for a Counter of the issues section
CountOf(counter, key) == IF key \in DOMAIN counter THEN counter[key] ELSE 0

\* review_score(c) with the draft pull requests left in
review_score_open_prs(c) ==
    IF ~c.issues.present THEN 0 ELSE 1000 * c.issues.prs

\* review_score(c)
review_score(c) ==
    IF ~c.issues.present THEN 0
    ELSE 1000 * (c.issues.prs - c.issues.drafts)

\* support_score(c)
support_score(c) ==
    IF ~c.issues.present THEN 0
    ELSE 10 * (c.issues.count - CountOf(c.issues.labels, "question"))
         + 100 * CountOf(c.issues.labels, "bug")
         + 25 * CountOf(c.issues.milestones, "none")

\* `if rlu` for an Optional[int] given by its decimal text
TruthyInt(digits) == digits # <<>> /\ digits # <<"0">>

\* timestamp_override(g, a): ts2dt(ts) if ts else None
timestamp_override(ts) == IF ts # <<>> THEN ts2dt(ts) ELSE NoDatetime

\* the score returned when a component was never vetted: 9999999999999
NeverVetted == PyInt(115740740, 63999)

\* maintenance_score(c), with ts the record's entry of timestamps.txt; raised
\* is TRUE where ts2dt raises ValueError
maintenance_score(c, ts) ==
    LET rlu == c.release.lastUpdated
        release_timestamp == IF TruthyInt(rlu) THEN ts2dt(rlu) ELSE datetime0
        manual == timestamp_override(ts)
        manual_timestamp == IF ts # <<>> THEN manual ELSE datetime0
        last_vetted == DatetimeMax(release_timestamp, manual_timestamp)
        slu == c.snapshot.lastUpdated
        last_updated == IF TruthyInt(slu) THEN ts2dt(slu) ELSE datetime0
    IN IF ~release_timestamp.ok \/ ~manual_timestamp.ok
       THEN [raised |-> TRUE, value |-> PyInt(0, 0)]
       ELSE IF DatetimeEqualsInt(last_vetted, 0)
       THEN [raised |-> FALSE, value |-> NeverVetted]
       ELSE IF ~last_updated.ok
       THEN [raised |-> TRUE, value |-> PyInt(0, 0)]
       ELSE [raised |-> FALSE,
             value |-> PyMax0(SecondsBetween(last_updated, last_vetted))]

\* 'role' in roles
HasRole(roles, role) == \E n \in 1..Len(roles.list) : roles.list[n] = role

\* developer_score(c, dev) returning 0 where the developer holds none of the
\* three roles
developer_score_zero(c, roles, ts) ==
    LET ms == IF HasRole(roles, "maintainer") THEN maintenance_score(c, ts)
              ELSE [raised |-> FALSE, value |-> PyInt(0, 0)]
        rs == IF HasRole(roles, "reviewer") THEN review_score(c) ELSE 0
        ss == IF HasRole(roles, "support") THEN support_score(c) ELSE 0
    IN IF ms.raised
       THEN [raised |-> TRUE, absent |-> FALSE, value |-> PyInt(0, 0)]
       ELSE [raised |-> FALSE, absent |-> FALSE,
             value |-> PyAdd(PyFromInt(rs + ss), ms.value)]

\* developer_score(c, dev), with roles = get(dev, 'roles') and ts the record's
\* entry of timestamps.txt; absent is TRUE where it returns None
developer_score(c, roles, ts) ==
    LET is_reviewer == HasRole(roles, "reviewer")
        is_support == HasRole(roles, "support")
        is_maintainer == HasRole(roles, "maintainer")
        rs == IF is_reviewer THEN review_score(c) ELSE 0
        ss == IF is_support THEN support_score(c) ELSE 0
        ms == IF is_maintainer THEN maintenance_score(c, ts)
              ELSE [raised |-> FALSE, value |-> PyInt(0, 0)]
    IN IF ~roles.present \/ roles.list = <<>>
       THEN [raised |-> FALSE, absent |-> TRUE, value |-> PyInt(0, 0)]
       ELSE IF ~is_reviewer /\ ~is_support /\ ~is_maintainer
       THEN [raised |-> FALSE, absent |-> TRUE, value |-> PyInt(0, 0)]
       ELSE IF ms.raised
       THEN [raised |-> TRUE, absent |-> FALSE, value |-> PyInt(0, 0)]
       ELSE [raised |-> FALSE, absent |-> FALSE,
             value |-> PyAdd(PyFromInt(rs + ss), ms.value)]

\* report.py calls review_score(c) on a record of the aggregator's output
ReviewScore ==
    /\ stage = "augmented"
    /\ score' = [NoScore EXCEPT !.fn = "review", !.value = PyFromInt(review_score(comp))]
    /\ UNCHANGED <<comp, timestamps, stage, given>>
    /\ UNCHANGED <<dlVars, items, setVars, mavenVars, runVars>>

\* report.py calls support_score(c) on a record of the aggregator's output
SupportScore ==
    /\ stage = "augmented"
    /\ score' = [NoScore EXCEPT !.fn = "support", !.value = PyFromInt(support_score(comp))]
    /\ UNCHANGED <<comp, timestamps, stage, given>>
    /\ UNCHANGED <<dlVars, items, setVars, mavenVars, runVars>>

\* report.py calls maintenance_score(c) on a record of the aggregator's output
MaintenanceScore ==
    /\ stage = "augmented"
    /\ score' = [NoScore EXCEPT !.fn = "maintenance",
                                !.raised = maintenance_score(comp, timestamps).raised,
                                !.value = maintenance_score(comp, timestamps).value]
    /\ UNCHANGED <<comp, timestamps, stage, given>>
    /\ UNCHANGED <<dlVars, items, setVars, mavenVars, runVars>>

\* report.py calls developer_score(c, dev) on a record of the aggregator's
\* output, for one developer
DeveloperScore ==
    /\ stage = "augmented"
    /\ \E roles \in
            { NoRoles, Roles(<<>>), Roles(<<"founder">>), Roles(<<"reviewer">>),
              Roles(<<"lead", "support">>), Roles(<<"maintainer">>),
              Roles(<<"reviewer", "maintainer">>),
              Roles(<<"reviewer", "support", "maintainer">>) } :
          score' = [fn |-> "developer",
                    raised |-> developer_score(comp, roles, timestamps).raised,
                    absent |-> developer_score(comp, roles, timestamps).absent,
                    value |-> developer_score(comp, roles, timestamps).value,
                    roles |-> roles]
    /\ UNCHANGED <<comp, timestamps, stage, given>>
    /\ UNCHANGED <<dlVars, items, setVars, mavenVars, runVars>>

----------------------------------------------------------------------------
(* Specification of one record scored *)

\* most items of the combined issue set when a record is scored
MaxTracked == 2

\* a tracker item of the combined issue set
Issue(org, rep, created, labs, stone) ==
    [repository_url |-> RepoUrl(org, rep), created_at |-> <<created>>,
     updated_at |-> <<created>>, labels |-> labs, milestone |-> stone,
     assignees |-> <<>>]

\* the tracker items a record is scored with; milestone <<>> is JSON null
ScoreItems ==
    { Issue("scijava", "pom-scijava", "2019-01-04T16:41:24Z", <<"question">>, <<>>),
      Issue("scijava", "pom-scijava", "2020-02-29T23:00:00Z", <<"bug">>, <<"1.0.0">>),
      Issue("scijava", "pom-scijava", "2019-01-04T16:41:24Z", <<>>, <<"none">>),
      Issue("scijava", "scijava-common", "2020-02-29T23:00:00Z", <<"bug">>, <<>>),
      [Issue("scijava", "pom-scijava", "2020-02-29T23:00:00Z", <<>>, <<>>)
          EXCEPT !.assignees = <<"ctrueden">>]
        @@ [pull_request |-> <<"https://api.github.com/repos/scijava/pom-scijava/pulls/9">>],
      Issue("scijava", "pom-scijava", "2020-02-29T23:00:00Z",
            <<"bug", "question">>, <<"unscheduled">>)
        @@ [pull_request |-> <<"https://api.github.com/repos/scijava/pom-scijava/pulls/8">>,
            draft |-> <<"true">>],
      Issue("scijava", "pom-scijava", "2019-01-04T16:41:24Z", <<>>, <<"1.0.0">>)
        @@ [draft |-> <<"false">>] }

\* four instants, oldest first, as <lastUpdated> of maven-metadata.xml writes them:
\* 2020-02-29 23:00:00, 2020-03-01 00:00:00, 2021-07-02 14:49:18, 2021-07-02 15:49:18
Instants ==
    << <<"2", "0", "2", "0", "0", "2", "2", "9", "2", "3", "0", "0", "0", "0">>,
       <<"2", "0", "2", "0", "0", "3", "0", "1", "0", "0", "0", "0", "0", "0">>,
       <<"2", "0", "2", "1", "0", "7", "0", "2", "1", "4", "4", "9", "1", "8">>,
       <<"2", "0", "2", "1", "0", "7", "0", "2", "1", "5", "4", "9", "1", "8">> >>

\* the entries of timestamps.txt: instant 1 in the form of SNAPSHOT file names,
\* none, instant 3, and a date that ts2dt does not accept
Overrides ==
    << <<"2", "0", "2", "0", "0", "2", "2", "9", ".", "2", "3", "0", "0", "0", "0">>,
       <<>>,
       <<"2", "0", "2", "1", "0", "7", "0", "2", "1", "4", "4", "9", "1", "8">>,
       <<"2", "0", "2", "1", "-", "0", "7", "-", "0", "2">> >>

\* which instant an entry of Overrides is, 0 for none
OverrideInstant == <<1, 0, 3, 0>>

\* the release or snapshot section built from choice k: 0 is None, -1 a section
\* without lastUpdated, 1..4 one of the Instants
MetadataOf(k) ==
    IF k = 0 THEN NoMetadata
    ELSE IF k = -1 THEN Metadata(<<>>) ELSE Metadata(Instants[k])

\* the timestamps a record has when the issue set holds more than one item
FewTimestamps == {<<0, 0, 2>>, <<3, 4, 2>>, <<1, 0, 3>>}

\* a record after run's cataloging of issue trackers, with the combined issue
\* set: every choice of timestamps with at most one item, and FewTimestamps with
\* every issue set
InitScore ==
    /\ InitIdle /\ InitSet /\ InitNoComponent
    /\ tracker = "any" /\ matching = <<>>
    /\ items \in SeqsUpTo(ScoreItems, MaxTracked)
    /\ stage = "cataloged"
    /\ score = NoScore
    /\ \E r \in -1..Len(Instants), u \in -1..Len(Instants), o \in 1..Len(Overrides),
          section \in {NoIssues, BareIssues("scijava", "pom-scijava")} :
          /\ Len(items) <= 1 \/ <<r, u, o>> \in FewTimestamps
          /\ given = [release |-> r, snapshot |-> u, override |-> o]
          /\ comp = [release |-> MetadataOf(r), snapshot |-> MetadataOf(u),
                     issues |-> section]
          /\ timestamps = Overrides[o]

NextScore ==
    Augment \/ ReviewScore \/ SupportScore \/ MaintenanceScore \/ DeveloperScore

\* one record of the aggregator's output, scored by report.py
SpecScore == InitScore /\ [][NextScore]_vars

----------------------------------------------------------------------------
(* maven.py: the repository storage *)

\* stores of release_repos and of snapshot_repos that the model scans
MaxStores == 2
\* most timestamped pom files in one version directory
MaxFiles == 2

\* ts_allowance: maximum seconds difference in SNAPSHOT timestamp
ts_allowance == 10

\* the first MaxStores stores of release_repos
release_repos ==
    SubSeq(<<"releases", "thirdparty", "sonatype", "central", "ome-releases">>, 1,
           IF MaxStores < 5 THEN MaxStores ELSE 5)

\* the first MaxStores stores of snapshot_repos
snapshot_repos ==
    SubSeq(<<"snapshots", "sonatype-snapshots", "ome-snapshots">>, 1,
           IF MaxStores < 3 THEN MaxStores ELSE 3)

\* a store without maven-metadata.xml for the coordinate
NoMetadataFile == [exists |-> FALSE, lastUpdated |-> <<>>, lastVersion |-> <<>>]

\* the maven-metadata.xml of a store: the text of versioning/lastUpdated (<<>>
\* where the element is missing) and the last versioning/versions/version
\* (<<>> where there is none), a version being its text split before -SNAPSHOT
MetadataFile(updated, version) ==
    [exists |-> TRUE, lastUpdated |-> updated, lastVersion |-> version]

\* one store: its maven-metadata.xml, and its directory <store>/<g>/<a>/<v>:
\* whether <a>-<v>.pom exists, and the timestamps embedded in the names of its
\* <a>-<v minus -SNAPSHOT>-*.pom files, in the order glob yields them (<<>> for
\* a name without timestamp)
Store(meta, release_pom, stamped) ==
    [metadata |-> meta, dir |-> [release_pom |-> release_pom, stamped |-> stamped]]

\* contents of the files of the storage.
\* lastUpdated: two integers that are no timestamps, and a text int() rejects;
\* versions; timestamps of pom file names around 2020-03-01 00:00:00
\* (Instants[2]): the same second, 5 seconds before, 11 seconds after, a whole
\* day before
Sample ==
    [updated100 |-> <<"1", "0", "0">>,
     updated200 |-> <<"2", "0", "0">>,
     soon |-> <<"s", "o", "o", "n">>,
     release |-> <<"1.0.0">>,
     snapshot |-> <<"1.1.0", "-SNAPSHOT">>,
     same |-> <<"2", "0", "2", "0", "0", "3", "0", "1", ".", "0", "0", "0", "0", "0", "0">>,
     before5 |-> <<"2", "0", "2", "0", "0", "2", "2", "9", ".", "2", "3", "5", "9", "5", "5">>,
     after11 |-> <<"2", "0", "2", "0", "0", "3", "0", "1", ".", "0", "0", "0", "0", "1", "1">>,
     day_before |-> <<"2", "0", "2", "0", "0", "2", "2", "9", ".", "0", "0", "0", "0", "0", "0">>]

----------------------------------------------------------------------------
(* maven.py: MavenMetadata and MavenComponent *)

RECURSIVE StripZeros(_)
\* str(int(digits)): the digits without leading zeros
StripZeros(digits) ==
    IF Len(digits) > 1 /\ Head(digits) = "0" THEN StripZeros(Tail(digits)) ELSE digits

\* MavenMetadata.lastUpdated: None if the element is missing, int(result)
\* otherwise, which raises ValueError unless the text is a decimal number
lastUpdated(m) ==
    IF m.lastUpdated = <<>>
    THEN [error |-> "none", none |-> TRUE, digits |-> <<>>]
    ELSE IF ~AllDigits(m.lastUpdated, 1, Len(m.lastUpdated))
    THEN [error |-> "ValueError", none |-> FALSE, digits |-> <<>>]
    ELSE [error |-> "none", none |-> FALSE, digits |-> StripZeros(m.lastUpdated)]

RECURSIVE DigitsGreater(_, _)
\* a > b for two ints of as many digits
DigitsGreater(a, b) ==
    IF a = <<>> THEN FALSE
    ELSE IF DigitValue[Head(a)] # DigitValue[Head(b)]
    THEN DigitValue[Head(a)] > DigitValue[Head(b)]
    ELSE DigitsGreater(Tail(a), Tail(b))

\* a >= b where _metadata compares a > b
int_greater_or_equal(a, b) ==
    Len(a) > Len(b) \/ (Len(a) = Len(b) /\ (a = b \/ DigitsGreater(a, b)))

\* m.lastUpdated > best.lastUpdated for two ints given by their digits
int_greater(a, b) ==
    Len(a) > Len(b) \/ (Len(a) = Len(b) /\ DigitsGreater(a, b))

RECURSIVE metadata_loop(_, _, _)
\* the loop of _metadata from store k on, with best the store chosen so far (0
\* for None): the store returned, or the exception raised
metadata_loop(stores, k, best) ==
    IF k > Len(stores) THEN [error |-> "none", best |-> best]
    ELSE IF ~stores[k].metadata.exists THEN metadata_loop(stores, k + 1, best)
    ELSE IF best = 0 THEN metadata_loop(stores, k + 1, k)
    ELSE LET m == lastUpdated(stores[k].metadata)
             b == lastUpdated(stores[best].metadata)
         IN IF m.error # "none" THEN [error |-> m.error, best |-> 0]
            ELSE IF m.none THEN metadata_loop(stores, k + 1, best)
            ELSE IF b.error # "none" THEN [error |-> b.error, best |-> 0]
            ELSE IF b.none THEN [error |-> "TypeError", best |-> 0]
            ELSE IF int_greater(m.digits, b.digits)
            THEN metadata_loop(stores, k + 1, k)
            ELSE metadata_loop(stores, k + 1, best)

\* MavenComponent._metadata(repos, g, a)
metadata(stores) ==
    LET r == metadata_loop(stores, 1, 0)
    IN [error |-> r.error,
        pick |-> IF r.error = "none" /\ r.best # 0 THEN Pick(r.best, 0) ELSE NoPick]

\* abs(a - b).seconds: the seconds field of the timedelta, which leaves its days out
timedelta_abs_seconds(a, b) ==
    LET d == SecondsBetween(a, b)
    IN IF d.hi >= 0 THEN d.lo ELSE IF d.lo = 0 THEN 0 ELSE 86400 - d.lo

\* re.match(pom_prefix + "-(\d{8}\.\d{6})-\d+\.pom", f.name) of a file name
\* given by its timestamp part
stamped_name(stamp) ==
    Len(stamp) = 15 /\ AllDigits(stamp, 1, 8) /\ stamp[9] = "." /\ AllDigits(stamp, 10, 15)

RECURSIVE pom_snapshot(_, _, _, _)
\* the loops of _pom over the stores and the files of each directory, from
\* file f of store k on
pom_snapshot(stores, k, f, dt_requested) ==
    IF k > Len(stores) THEN [error |-> "none", pick |-> NoPick]
    ELSE IF f > Len(stores[k].dir.stamped) THEN pom_snapshot(stores, k + 1, 1, dt_requested)
    ELSE IF ~stamped_name(stores[k].dir.stamped[f])
    THEN pom_snapshot(stores, k, f + 1, dt_requested)
    ELSE LET dt_actual == ts2dt(stores[k].dir.stamped[f])
         IN IF ~dt_actual.ok THEN [error |-> "ValueError", pick |-> NoPick]
            ELSE IF timedelta_abs_seconds(dt_requested, dt_actual) <= ts_allowance
            THEN [error |-> "none", pick |-> Pick(k, f)]
            ELSE pom_snapshot(stores, k, f + 1, dt_requested)

\* v.endswith("-SNAPSHOT")
is_snapshot_version(v) == v # <<>> /\ v[Len(v)] = "-SNAPSHOT"

\* MavenComponent._pom(repos, g, a, v, ts), ts being <<>> for None
pom(stores, v, ts) ==
    IF is_snapshot_version(v)
    THEN IF ts = <<>> THEN [error |-> "AssertionError", pick |-> NoPick]
         ELSE IF ~ts2dt(ts).ok THEN [error |-> "ValueError", pick |-> NoPick]
         ELSE pom_snapshot(stores, 1, 1, ts2dt(ts))
    ELSE LET found == {k \in 1..Len(stores) : stores[k].dir.release_pom}
         IN [error |-> "none",
             pick |-> IF found = {} THEN NoPick
                      ELSE Pick(CHOOSE k \in found : \A j \in found : k <= j, 0)]

\* __init__, lines 144-151, falling back to the release pom where the lookup of
\* the SNAPSHOT pom finds none
init_pom_fallback(st, release, snapshot) ==
    LET s == IF snapshot.present THEN st.snapshot[snapshot.store].metadata ELSE NoMetadataFile
        r == IF release.present THEN st.release[release.store].metadata ELSE NoMetadataFile
        viaSnapshot == pom(st.snapshot, s.lastVersion, lastUpdated(s).digits)
        viaRelease == pom(st.release, r.lastVersion, <<>>)
    IN IF snapshot.present /\ s.lastVersion # <<>> /\ lastUpdated(s).error = "none"
          /\ viaSnapshot.error = "none" /\ viaSnapshot.pick.present
       THEN [error |-> "none", pick |-> viaSnapshot.pick,
             version |-> s.lastVersion, call |-> "pom:snapshot_repos"]
       ELSE IF release.present /\ r.lastVersion # <<>>
       THEN [error |-> viaRelease.error, pick |-> viaRelease.pick,
             version |-> r.lastVersion, call |-> "pom:release_repos"]
       ELSE [error |-> "none", pick |-> NoPick, version |-> <<>>, call |-> ""]

\* the metadata file a result of _metadata stands for
MetadataAt(stores, pick) ==
    IF pick.present THEN stores[pick.store].metadata ELSE NoMetadataFile

\* str(self.snapshot.lastUpdated): "None" for None
str_lastUpdated(m) ==
    IF lastUpdated(m).none THEN <<"N", "o", "n", "e">> ELSE lastUpdated(m).digits

\* __init__, lines 144-151: the manifest of the component, the version it was
\* looked up for and the store list _pom was called with ("" for no call)
init_pom(st, release, snapshot) ==
    LET s == MetadataAt(st.snapshot, snapshot)
        r == MetadataAt(st.release, release)
    IN IF snapshot.present /\ s.lastVersion # <<>>
       THEN IF lastUpdated(s).error # "none"
            THEN [error |-> lastUpdated(s).error, pick |-> NoPick,
                  version |-> <<>>, call |-> ""]
            ELSE [error |-> pom(st.snapshot, s.lastVersion, str_lastUpdated(s)).error,
                  pick |-> pom(st.snapshot, s.lastVersion, str_lastUpdated(s)).pick,
                  version |-> s.lastVersion, call |-> "pom:snapshot_repos"]
       ELSE IF release.present /\ r.lastVersion # <<>>
       THEN [error |-> pom(st.release, r.lastVersion, <<>>).error,
             pick |-> pom(st.release, r.lastVersion, <<>>).pick,
             version |-> r.lastVersion, call |-> "pom:release_repos"]
       ELSE [error |-> "none", pick |-> NoPick, version |-> <<>>, call |-> ""]

\* __init__, line 142: self.release = MavenComponent._metadata(release_repos, g, a)
ScanRelease ==
    /\ mc.pc = "new"
    /\ LET r == metadata(storage.release)
       IN mc' = [mc EXCEPT !.pc = IF r.error = "none" THEN "released" ELSE "raised",
                           !.error = r.error,
                           !.release = r.pick,
                           !.calls = Append(@, "metadata:release_repos")]
    /\ UNCHANGED storage
    /\ UNCHANGED <<dlVars, items, setVars, scoreVars, runVars>>

\* __init__, line 143: self.snapshot = MavenComponent._metadata(snapshot_repos, g, a)
ScanSnapshot ==
    /\ mc.pc = "released"
    /\ LET r == metadata(storage.snapshot)
       IN mc' = [mc EXCEPT !.pc = IF r.error = "none" THEN "scanned" ELSE "raised",
                           !.error = r.error,
                           !.snapshot = r.pick,
                           !.calls = Append(@, "metadata:snapshot_repos")]
    /\ UNCHANGED storage
    /\ UNCHANGED <<dlVars, items, setVars, scoreVars, runVars>>

\* __init__, lines 144-151: self.pom
ResolvePom ==
    /\ mc.pc = "scanned"
    /\ LET r == init_pom(storage, mc.release, mc.snapshot)
       IN mc' = [mc EXCEPT !.pc = IF r.error = "none" THEN "done" ELSE "raised",
                           !.error = r.error,
                           !.pom = r.pick,
                           !.pom_version = r.version,
                           !.calls = IF r.call = "" THEN @ ELSE Append(@, r.call)]
    /\ UNCHANGED storage
    /\ UNCHANGED <<dlVars, items, setVars, scoreVars, runVars>>

----------------------------------------------------------------------------
(* Specification of one coordinate resolved *)

\* the storage: every content of the stores of one list with a few of the
\* other, and every listing of pom files in a SNAPSHOT directory
InitMaven ==
    LET \* the metadata files a store can hold
        Files(updates, version) ==
            {NoMetadataFile} \cup {MetadataFile(u, version) : u \in updates}
        \* stores of which the first holds the metadata m, and store `at` the
        \* pom files
        StoresWith(repos, m, release_pom, stamped, at, files) ==
            [k \in 1..Len(repos) |->
                Store(IF k = 1 THEN m ELSE NoMetadataFile,
                      k = 1 /\ release_pom,
                      IF k = at THEN files ELSE IF k = 1 THEN stamped ELSE <<>>)]
        \* every content of the stores of release_repos, each with the release
        \* pom; the metadata of one scan all have a last version, or none has
        ReleaseStorages ==
            UNION {[1..Len(release_repos) ->
                       {Store(m, TRUE, <<>>) :
                           m \in Files({Sample.updated100, Sample.updated200, <<>>,
                                        Sample.soon}, v)}] :
                   v \in {Sample.release, <<>>}}
        \* every content of the stores of snapshot_repos, each with one pom
        SnapshotStorages ==
            [1..Len(snapshot_repos) ->
                {Store(m, FALSE, <<Sample.same>>) :
                    m \in Files({Instants[1], Instants[2], Sample.updated100, <<>>,
                                 Sample.soon}, Sample.snapshot)}]
        FewReleaseStorages ==
            {StoresWith(release_repos, m, TRUE, <<>>, 0, <<>>) :
                m \in {NoMetadataFile, MetadataFile(Sample.updated200, Sample.release)}}
        FewSnapshotStorages ==
            {StoresWith(snapshot_repos, m, FALSE, <<Sample.same>>, 0, <<>>) :
                m \in {NoMetadataFile, MetadataFile(Instants[2], Sample.snapshot),
                       MetadataFile(Instants[2], <<>>)}}
        \* every listing of pom files in the version directory of one store
        ListedSnapshotStorages ==
            {StoresWith(snapshot_repos, MetadataFile(Instants[2], v), FALSE, <<>>, at, files) :
                v \in {Sample.snapshot, <<>>}, at \in 1..Len(snapshot_repos),
                files \in SeqsUpTo({Sample.same, Sample.before5, Sample.after11,
                                    Sample.day_before, <<>>}, MaxFiles)}
        \* with or without the release pom
        PomReleaseStorages ==
            {StoresWith(release_repos, MetadataFile(Sample.updated200, Sample.release),
                        b, <<>>, 0, <<>>) : b \in BOOLEAN}
    IN /\ InitIdle /\ InitSet /\ InitNoRecord
       /\ tracker = "any" /\ matching = <<>>
       /\ items = <<>>
       /\ mc = NoComponent
       /\ cache = [dir |-> FALSE, bom_file |-> NoFile]
       /\ bom = <<>>
       /\ run = NoRun
       /\ \E r \in ReleaseStorages \cup FewReleaseStorages \cup PomReleaseStorages,
             s \in SnapshotStorages \cup FewSnapshotStorages \cup ListedSnapshotStorages :
             /\ \/ r \in ReleaseStorages /\ s \in FewSnapshotStorages
                \/ r \in FewReleaseStorages /\ s \in SnapshotStorages
                \/ r \in PomReleaseStorages /\ s \in ListedSnapshotStorages
             /\ storage = [release |-> r, snapshot |-> s]

NextMaven == ScanRelease \/ ScanSnapshot \/ ResolvePom

\* MavenComponent(g, a) constructed over a storage
SpecMaven == InitMaven /\ [][NextMaven]_vars

----------------------------------------------------------------------------
(* status.py: run *)

\* most records of a bom
MaxRecords == 2

\* the lists of records maven.process can return, and the persisted metadata
\* snapshot can hold. Of the sections of a record run reads the pom only:
\* c["pom"] is None, or has issues (the issuesURL split at "/", <<>> for None)
\* and developers (id is <<>> where the entry has no id, <<PyNone>> where its
\* <id> element is empty).
\* The poms: none; no issuesURL, with a developer whose id is empty; a URL of
\* another tracker; URLs of GitHub Issues with reviewers, one listing the role
\* twice and listed twice himself, with a maintainer only, with a support
\* developer, with a reviewer who has no id, with a developer without roles;
\* a URL of an issue; a URL without repository; a developer whose <roles>
\* element is empty
Boms ==
    LET Developer(id, roles) == [id |-> id, roles |-> roles]
        Pom(issues, developers) ==
            [present |-> TRUE, issues |-> issues, developers |-> developers]
        \* https://github.com/<org>/<repo>/issues and the like
        IssuesUrl(scheme, host, org, rep) == <<scheme, "", host, org, rep, "issues">>
        Poms ==
            { [present |-> FALSE, issues |-> <<>>, developers |-> <<>>],
              Pom(<<>>, <<Developer(<<"ctrueden">>, Roles(<<"reviewer">>)),
                          Developer(<<PyNone>>, Roles(<<"support">>))>>),
              Pom(IssuesUrl("https:", "gitlab.com", "acme", "widget"),
                  <<Developer(<<"ctrueden">>, Roles(<<"reviewer">>))>>),
              Pom(IssuesUrl("https:", "github.com", "scijava", "pom-scijava"),
                  <<Developer(<<"ctrueden">>, Roles(<<"founder", "reviewer", "reviewer">>)),
                    Developer(<<"hinerm">>, Roles(<<"reviewer">>)),
                    Developer(<<"ctrueden">>, Roles(<<"lead">>))>>),
              Pom(IssuesUrl("https:", "github.com", "scijava", "scijava-common"),
                  <<Developer(<<"ctrueden">>, Roles(<<"maintainer">>))>>),
              Pom(IssuesUrl("http:", "github.com", "imagej", "imagej2"),
                  <<Developer(<<"hinerm">>, Roles(<<"lead", "support">>))>>),
              Pom(IssuesUrl("https:", "github.com", "fiji", "fiji"),
                  <<Developer(<<>>, Roles(<<"reviewer">>)),
                    Developer(<<"ctrueden">>, NoRoles)>>),
              Pom(IssuesUrl("https:", "github.com", "imglib", "imglib2") \o <<"42">>,
                  <<Developer(<<"tpietzsch">>, Roles(<<"support">>))>>),
              Pom(<<"https:", "", "github.com", "scijava", "issues">>,
                  <<Developer(<<"ctrueden">>, Roles(<<"support">>))>>),
              Pom(<<>>, <<Developer(<<>>, NullRoles),
                          Developer(<<"hinerm">>, NullRoles)>>) }
    IN {[n \in 1..Len(ps) |-> [pom |-> ps[n]]] : ps \in SeqsUpTo(Poms, MaxRecords)}

\* the orgs of the issue URLs, as list.sort() orders them
OrgOrder == <<"acme", "fiji", "imagej", "imglib", "scijava">>

\* the issue sets a download can return, and the persisted issue snapshot can
\* hold: open items of the tracker
RunIssueSets ==
    LET RunItems ==
            << Issue("scijava", "pom-scijava", "2019-01-04T16:41:24Z", <<"bug">>, <<>>),
               Issue("imagej", "imagej2", "2020-02-29T23:00:00Z", <<>>, <<"1.0.0">>)
                 @@ [pull_request |->
                        <<"https://api.github.com/repos/imagej/imagej2/pulls/9">>,
                     draft |-> <<"true">>],
               Issue("scijava", "scijava-common", "2020-02-29T23:00:00Z",
                     <<"question">>, <<>>) >>
    IN {<<>>, <<RunItems[1]>>, <<RunItems[2], RunItems[1], RunItems[3]>>}

\* a path that is never a file, where run tests bom_file.is_file()
is_file_never(f) == FALSE

\* bom_file.is_file(), issues_file.is_file()
is_file(f) == f.exists

\* a cache directory that is always there
is_dir_always(c) == TRUE

\* cache_dir.is_dir()
is_dir(c) == c.dir

\* issues_repo(pom) matching any host
issues_repo_any_host(p) ==
    LET u == p.issues
        m == /\ Len(u) >= 6 /\ u[1] \in {"https:", "http:"} /\ u[2] = ""
             /\ u[4] # "" /\ u[5] # "" /\ u[6] = "issues"
    IN IF u = <<>> \/ ~m THEN [matched |-> FALSE, org |-> "", repo |-> ""]
       ELSE [matched |-> TRUE, org |-> u[4], repo |-> u[5]]

\* issues_repo(pom): re.match('https?://github.com/([^/]+)/([^/]+)/issues', ...)
\* on the URL split at "/" (the hosts of Boms are such that the pattern's '.'
\* stands for a '.', and their sixth segment is "issues" or does not begin so)
issues_repo(p) ==
    LET u == p.issues
        m == /\ Len(u) >= 6 /\ u[1] \in {"https:", "http:"} /\ u[2] = ""
             /\ u[3] = "github.com" /\ u[4] # "" /\ u[5] # "" /\ u[6] = "issues"
    IN IF u = <<>> \/ ~m THEN [matched |-> FALSE, org |-> "", repo |-> ""]
       ELSE [matched |-> TRUE, org |-> u[4], repo |-> u[5]]

RECURSIVE ids_with_role(_, _)
\* the list c["team"][role] after the loop over the developers: the id of each
\* developer that has roles and an id, once for each time it lists the role
ids_with_role(developers, role) ==
    IF developers = <<>> THEN <<>>
    ELSE LET dev == Head(developers)
             times == IF dev.roles.present /\ dev.id # <<>>
                      THEN Len(SelectSeq(dev.roles.list, LAMBDA r : r = role)) ELSE 0
         IN [n \in 1..times |-> dev.id[1]] \o ids_with_role(Tail(developers), role)

\* run, lines 61-73: c["team"], a dict from role to list of developer ids
team(p) ==
    LET roles == IF ~p.present THEN {}
                 ELSE {r \in UNION {{p.developers[n].roles.list[k] :
                                         k \in 1..Len(p.developers[n].roles.list)} :
                                     n \in 1..Len(p.developers)} :
                          ids_with_role(p.developers, r) # <<>>}
    IN [r \in roles |-> ids_with_role(p.developers, r)]

\* run, line 69: `for role in dev["roles"]` raises TypeError where roles is
\* None, which it reaches for a developer that has the roles and the id key
team_raises(p) ==
    /\ p.present
    /\ \E n \in 1..Len(p.developers) :
          p.developers[n].roles = NullRoles /\ p.developers[n].id # <<>>

\* run, lines 77-84: c["issues"]
cataloged(p) ==
    IF p.present /\ issues_repo(p).matched
    THEN BareIssues(issues_repo(p).org, issues_repo(p).repo)
    ELSE NoIssues

\* run, lines 89-90, taking every record that uses GitHub Issues
orgs_of_all(records) ==
    {records[n].issues.org : n \in {k \in 1..Len(records) : records[k].issues.present}}

\* run, lines 89-90: the set of orgs
orgs_of(records) ==
    {records[n].issues.org :
        n \in {k \in 1..Len(records) :
                 /\ records[k].issues.present
                 /\ \E role \in {"reviewer", "support"} : role \in DOMAIN records[k].team}}

\* run, lines 91-92: list(orgs), sorted
sorted(orgs) == SelectSeq(OrgOrder, LAMBDA o : o \in orgs)

\* a query that names every org twice
user_query_twice(orgs) == [n \in 1..(2 * Len(orgs)) |-> Term("user", orgs[((n - 1) % Len(orgs)) + 1])]

\* fetch_issues, line 36: "+".join(f"user:{org}" for org in orgs)
user_query(orgs) == [n \in 1..Len(orgs) |-> Term("user", orgs[n])]

\* maven.process(), lines 249-273, with no patterns: None when nothing of the
\* root component psj is resolved; the root's record alone when it has no pom;
\* else the root's record and those of the dependencies its pom manages
process(psj, dependencies) ==
    IF ~psj.release /\ ~psj.snapshot /\ ~psj.pom.present
    THEN [none |-> TRUE, records |-> <<>>]
    ELSE IF ~psj.pom.present
    THEN [none |-> FALSE, records |-> <<[pom |-> psj.pom]>>]
    ELSE [none |-> FALSE, records |-> <<[pom |-> psj.pom]>> \o dependencies]

\* run, lines 54-57: `if not bom` holds for None and for an empty list alike;
\* the message is logged, and sys.exit(1) raises NameError, status.py not
\* importing sys
check_bom(none, records) ==
    IF none \/ records = <<>>
    THEN [error |-> "NameError", logged |-> "This script must be run from the SciJava Maven server"]
    ELSE [error |-> "none", logged |-> "none"]

\* run, lines 42-57 with maven.json present: the snapshot is read
ReadSnapshot ==
    /\ run.pc = "start"
    /\ is_file(cache.bom_file)
    /\ bom' = json_loads(cache.bom_file.text)
    /\ run' = [run EXCEPT !.pc = IF check_bom(FALSE, bom').error = "none"
                                 THEN "team" ELSE "raised",
                          !.error = check_bom(FALSE, bom').error,
                          !.logged = check_bom(FALSE, bom').logged]
    /\ UNCHANGED <<cache, items, setVars>>
    /\ UNCHANGED <<dlVars, scoreVars, mavenVars>>

\* run, lines 42-57 without maven.json: bom = maven.process(), which returns
\* None or a list of records, or raises what a MavenComponent constructor
\* raises; the result is written to maven.json if it is not empty and .cache
\* is a directory
Process ==
    /\ run.pc = "start"
    /\ ~is_file(cache.bom_file)
    /\ \E raised \in BOOLEAN, b \in Boms \ {<<>>}, release \in BOOLEAN, snapshot \in BOOLEAN :
          LET \* a pom is resolved from the metadata of the release or the snapshot
              psj == [release |-> release, snapshot |-> snapshot, pom |-> b[1].pom]
              out == process(psj, Tail(b))
              end == check_bom(out.none, out.records)
          IN /\ psj.pom.present => release \/ snapshot
             /\ bom' = IF raised THEN <<>> ELSE out.records
             /\ cache' = IF ~raised /\ out.records # <<>> /\ is_dir(cache)
                         THEN [cache EXCEPT !.bom_file =
                                  [exists |-> TRUE, text |-> json_dump(out.records)]]
                         ELSE cache
             /\ run' = IF raised
                       THEN [run EXCEPT !.pc = "raised", !.error = "process",
                                        !.process_calls = @ + 1]
                       ELSE [run EXCEPT !.pc = IF end.error = "none" THEN "team" ELSE "raised",
                                        !.error = end.error,
                                        !.logged = end.logged,
                                        !.root = IF out.none THEN "unresolved" ELSE "resolved",
                                        !.process_calls = @ + 1]
    /\ UNCHANGED <<items, setVars>>
    /\ UNCHANGED <<dlVars, scoreVars, mavenVars>>

\* run, lines 59-73: the team section of every record
AugmentTeam ==
    /\ run.pc = "team"
    /\ LET raising == {n \in 1..Len(bom) : team_raises(bom[n].pom)}
       IN IF raising = {}
          THEN /\ bom' = [n \in 1..Len(bom) |-> bom[n] @@ [team |-> team(bom[n].pom)]]
               /\ run' = [run EXCEPT !.pc = "catalog"]
          ELSE \* the records before the one that raises have their team
               /\ bom' = [n \in 1..Len(bom) |->
                            IF \A k \in raising : n < k
                            THEN bom[n] @@ [team |-> team(bom[n].pom)] ELSE bom[n]]
               /\ run' = [run EXCEPT !.pc = "raised", !.error = "TypeError"]
    /\ UNCHANGED <<cache, items, setVars>>
    /\ UNCHANGED <<dlVars, scoreVars, mavenVars>>

\* run, lines 75-84: the barebones issues section of every record
Catalog ==
    /\ run.pc = "catalog"
    /\ bom' = [n \in 1..Len(bom) |-> bom[n] @@ [issues |-> cataloged(bom[n].pom)]]
    /\ run' = [run EXCEPT !.pc = "orgs"]
    /\ UNCHANGED <<cache, items, setVars>>
    /\ UNCHANGED <<dlVars, scoreVars, mavenVars>>

\* run, lines 86-96: orgs, and ghi = github.GitHubIssues()
CompileOrgs ==
    /\ run.pc = "orgs"
    /\ run' = [run EXCEPT !.pc = "issues", !.orgs = sorted(orgs_of(bom))]
    /\ items' = <<>>
    /\ UNCHANGED <<cache, bom, setVars>>
    /\ UNCHANGED <<dlVars, scoreVars, mavenVars>>

\* run, lines 97-100 with issues.json present: ghi.load(issues_file)
LoadIssues ==
    /\ run.pc = "issues"
    /\ is_file(file)
    /\ items' = extend(items, json_loads(file.text))
    /\ run' = [run EXCEPT !.pc = "augment"]
    /\ UNCHANGED <<cache, bom, setVars>>
    /\ UNCHANGED <<dlVars, scoreVars, mavenVars>>

\* run, lines 101-106 without issues.json: ghi = fetch_issues(orgs), where
\* ghi.download(query) leaves any issue set in ghi or raises; saved to
\* issues.json if .cache is a directory
FetchIssues ==
    /\ run.pc = "issues"
    /\ ~is_file(file)
    /\ \E out \in {[raised |-> TRUE, items |-> <<>>]} \cup
                     {[raised |-> FALSE, items |-> its] : its \in RunIssueSets} :
          /\ items' = out.items
          /\ file' = IF ~out.raised /\ is_dir(cache)
                     THEN [exists |-> TRUE, text |-> json_dump(out.items)]
                     ELSE file
          /\ saved' = IF ~out.raised /\ is_dir(cache) THEN out.items ELSE saved
          /\ run' = [run EXCEPT !.pc = IF out.raised THEN "raised" ELSE "augment",
                                !.error = IF out.raised THEN "download" ELSE "none",
                                !.query = user_query(run.orgs),
                                !.download_calls = @ + 1]
    /\ UNCHANGED <<cache, bom, result, op, before>>
    /\ UNCHANGED <<dlVars, scoreVars, mavenVars>>

\* run, lines 101-102, and fetch_issues, lines 35-37: a new GitHubIssues, and
\* ghi.download(query) starts
FetchStart ==
    /\ run.pc = "issues"
    /\ ~is_file(file)
    /\ Start(user_query(run.orgs))
    /\ items' = <<>>
    /\ run' = [run EXCEPT !.pc = "download",
                          !.query = user_query(run.orgs),
                          !.download_calls = @ + 1]
    /\ UNCHANGED <<cache, bom, file, saved, result, op, before>>
    /\ UNCHANGED <<scoreVars, mavenVars>>

\* fetch_issues line 38 and run, lines 102-106: the download is over; what it
\* raised ends the run, else ghi is saved to issues.json if .cache is a
\* directory
FetchEnd ==
    /\ run.pc = "download"
    /\ pc \in {"returned", "raised"}
    /\ file' = IF pc = "returned" /\ is_dir(cache)
               THEN [exists |-> TRUE, text |-> json_dump(items)]
               ELSE file
    /\ saved' = IF pc = "returned" /\ is_dir(cache) THEN items ELSE saved
    /\ run' = [run EXCEPT !.pc = IF pc = "raised" THEN "raised" ELSE "augment",
                          !.error = IF pc = "raised" THEN "download" ELSE "none"]
    /\ UNCHANGED <<cache, bom, items, result, op, before>>
    /\ UNCHANGED <<dlVars, scoreVars, mavenVars>>

RECURSIVE augment_issues(_, _)
\* run, lines 111-126: the loop over the records; each record that uses GitHub
\* Issues calls ghi.repo(org, repo) and gets its statistics from the result
augment_issues(records, ghi) ==
    IF records = <<>> THEN [bom |-> <<>>, ghi |-> ghi]
    ELSE LET c == Head(records)
             rest == augment_issues(Tail(records),
                        IF c.issues.present
                        THEN repo(ghi, c.issues.org, c.issues.repo).self_items ELSE ghi)
         IN [bom |-> <<IF c.issues.present
                       THEN [c EXCEPT !.issues = issue_statistics(c.issues, ghi)]
                       ELSE c>> \o rest.bom,
             ghi |-> rest.ghi]

\* run, lines 109-128: the issue statistics of every record that uses GitHub
\* Issues, and the output
AugmentIssues ==
    /\ run.pc = "augment"
    /\ bom' = augment_issues(bom, items).bom
    /\ items' = augment_issues(bom, items).ghi
    /\ run' = [run EXCEPT !.pc = "printed"]
    /\ UNCHANGED <<cache, setVars>>
    /\ UNCHANGED <<dlVars, scoreVars, mavenVars>>

----------------------------------------------------------------------------
(* Specification of one run of the aggregator *)

\* the persisted snapshots before the run: .cache missing; .cache empty; and
\* .cache with maven.json, with issues.json, or with both: maven.json written
\* by an earlier run from a bom that is not empty, or holding an empty array;
\* issues.json written from an issue set
InitRun ==
    /\ InitIdle /\ InitNoRecord
    /\ tracker = "any" /\ matching = <<>>
    /\ items = <<>>
    /\ result = <<>> /\ op = NoOp /\ before = <<>> /\ saved = <<>>
    /\ storage = [release |-> <<>>, snapshot |-> <<>>]
    /\ mc = NoComponent
    /\ bom = <<>>
    /\ \E dir \in BOOLEAN, records \in Boms, its \in RunIssueSets,
          hasBom \in BOOLEAN, hasIssues \in BOOLEAN :
          /\ hasBom => dir
          /\ ~hasBom => records = <<>>
          /\ hasIssues => dir
          /\ ~hasIssues => its = <<>>
          /\ cache = [dir |-> dir,
                      bom_file |-> IF hasBom
                                   THEN [exists |-> TRUE, text |-> json_dump(records)]
                                   ELSE NoFile]
          /\ file = IF hasIssues THEN [exists |-> TRUE, text |-> json_dump(its)] ELSE NoFile
          /\ run = [NoRun EXCEPT !.had_bom = hasBom, !.had_issues = hasIssues,
                                 !.snapshot_bom = records, !.snapshot_issues = its]

NextRun ==
    \/ ReadSnapshot \/ Process \/ AugmentTeam \/ Catalog \/ CompileOrgs
    \/ LoadIssues \/ FetchIssues \/ AugmentIssues

\* status.run() over any persisted snapshots
SpecRun == InitRun /\ [][NextRun]_vars

\* a run that finds .cache with maven.json, written from one record whose pom
\* has the URL https://github.com/<org>/<repo>/issues, and no issues.json, and
\* downloads from the flaky tracker
InitFetch ==
    /\ InitIdle /\ InitNoRecord
    /\ tracker = "flaky" /\ matching = <<>>
    /\ items = <<>>
    /\ result = <<>> /\ op = NoOp /\ before = <<>> /\ saved = <<>>
    /\ storage = [release |-> <<>>, snapshot |-> <<>>]
    /\ mc = NoComponent
    /\ bom = <<>>
    /\ file = NoFile
    /\ \E records \in {b \in Boms : /\ Len(b) = 1
                                    /\ Len(b[1].pom.issues) = 6
                                    /\ b[1].pom.issues[1] = "https:"
                                    /\ b[1].pom.issues[3] = "github.com"} :
          /\ cache = [dir |-> TRUE,
                      bom_file |-> [exists |-> TRUE, text |-> json_dump(records)]]
          /\ run = [NoRun EXCEPT !.had_bom = TRUE, !.snapshot_bom = records]

NextFetch ==
    \/ ReadSnapshot \/ AugmentTeam \/ Catalog \/ CompileOrgs
    \/ FetchStart \/ Request \/ Exhausted \/ Answer \/ Sleep \/ FetchEnd
    \/ AugmentIssues

\* status.run() with the requests of its download
SpecFetch == InitFetch /\ [][NextFetch]_vars

----------------------------------------------------------------------------
(* Claims about GitHubIssues.download *)

\* the download is over: it returned
Returned == pc = "returned"

\* C1 as stated: against the tracker double (total_count > 1000 on every page,
\* never a "next" link) download, once it has stopped, has made at most
\* max_requests fetches and has issued the overflow continuation query at least
\* once.
C1_StopsAfterOverflow ==
    Returned => (fetches <= max_requests /\ overflows >= 1)

\* C1 amended: against the tracker double download eventually stops, never
\* makes more than max_requests fetches, and, when the first page it got was
\* not empty, has issued the overflow continuation query at least once.
C1_StopsAfterOverflowIfFirstPageNonEmpty ==
    /\ <>Returned
    /\ [](fetches <= max_requests)
    /\ []((Returned /\ firstPage > 0) => overflows >= 1)

\* the double kept serving items and download stopped at the ceiling, after
\* continuation queries
C1_Witness ==
    Returned /\ tracker = "double" /\ fetches = max_requests /\ overflows >= 1

\* C2: in one call of download the number of page fetches never exceeds
\* max_requests, whatever the tracker answers.
C2_FetchCeiling == fetches <= max_requests

\* download stopped by the ceiling with a further URL pending, after following
\* both overflow continuations and "next" links
C2_Witness ==
    /\ Returned /\ tracker = "any" /\ fetches = max_requests /\ url # NoUrl
    /\ overflows >= 1 /\ overflows < fetches - 1

\* the step C3 gives for a successful response: the "next" link when there is
\* one; else, when total_count > 1000 and the page is not empty, a fresh search
\* for the original query with one created:> filter; else none
C3_NextStep(resp) ==
    IF resp.next # 0 THEN [kind |-> "link", q |-> <<>>, link |-> resp.next]
    ELSE IF resp.total_count > 1000 /\ resp.items # <<>>
    THEN [kind |-> "search",
          q |-> Query \o <<[op |-> "created:>",
                            arg |-> resp.items[Len(resp.items)].created_at[1]],
                           [op |-> "is", arg |-> "open"]>>,
          link |-> 0]
    ELSE NoUrl

\* a successful response has been handled
Handled == fetches >= 1 /\ response.ok /\ pc \in {"sleep", "loop", "returned"}

\* C3 as stated: after each successful page response download requests the
\* step of C3_NextStep and stops only when that step is none.
C3_AlwaysTakesNextStep ==
    /\ Handled => url = C3_NextStep(response)
    /\ (pc = "wait" /\ fetches >= 2) => requested = C3_NextStep(response)
    /\ (Handled /\ Returned) => C3_NextStep(response) = NoUrl

\* C3 amended: after each successful page response the URL download decides on
\* is the step of C3_NextStep, every later request is for exactly that URL, and
\* download stops when the step is none or when the response was that of the
\* max_requests-th fetch.
C3_TakesNextStepUpToCeiling ==
    /\ Handled => url = C3_NextStep(response)
    /\ (pc = "wait" /\ fetches >= 2) => requested = C3_NextStep(response)
    /\ (Handled /\ Returned) =>
           (C3_NextStep(response) = NoUrl \/ fetches = max_requests)
    /\ (Handled /\ C3_NextStep(response) = NoUrl) => Returned

\* a second overflow continuation in flight: its query holds one created:> filter
C3_Witness ==
    /\ pc = "wait" /\ overflows >= 2 /\ requested.kind = "search"
    /\ Len(requested.q) = Len(Query) + 2
    /\ response.total_count > 1000

\* C4: no delay before the first fetch; every later fetch starts after the
\* previous one has completed and a full delay_per_request has been slept since;
\* never two fetches in flight.
C4_DelayBetweenFetches ==
    /\ inflight <= 1
    /\ (pc = "wait") = (inflight = 1)
    /\ (pc = "wait" /\ fetches = 1) => (sleeps = 0 /\ sinceFetch = 0)
    /\ (pc = "wait" /\ fetches >= 2) =>
           (sinceFetch >= delay_per_request /\ sleeps = fetches - 1)

\* a third fetch in flight, two delays after the first
C4_Witness == pc = "wait" /\ fetches = 3 /\ sleeps = 2

\* C5: during and after a download the accumulated items are the items held
\* before it followed by the items of every fetched page, in fetch order: no
\* item removed, reordered, merged or deduplicated.
C5_AppendOnly ==
    pc # "idle" =>
        /\ items = prior \o pages
        /\ Len(items) = Len(prior) + Len(pages)

\* two pages fetched onto a non-empty list, with an item the list held already
C5_Witness ==
    /\ Returned /\ fetches >= 2 /\ prior # <<>> /\ Len(pages) >= 2
    /\ \E k \in 1..Len(pages) : pages[k] = prior[1]

----------------------------------------------------------------------------
(* Claims about GitHubIssues.repo, save and load *)

\* a repository_url ends with '/repos/{org}/{repo}'
C6_EndsWithRepo(u, org, rep) ==
    \E n \in 1..Len(u) : u = SubSeq(u, 1, n) \o <<"repos", org, rep>>

\* the k-th smallest number of S
C6_Kth(S, k) == CHOOSE x \in S : Cardinality({y \in S : y <= x}) = k

\* C6: repo(org, repo) returns exactly the items of the parent whose
\* repository_url ends with '/repos/{org}/{repo}', in the parent's order, and
\* leaves the parent's item list unchanged.
C6_RepoFilters ==
    op.name = "repo" =>
        LET idx == {k \in 1..Len(before) :
                       C6_EndsWithRepo(before[k].repository_url, op.org, op.repo)}
        IN /\ Len(result) = Cardinality(idx)
           /\ \A k \in 1..Len(result) : result[k] = before[C6_Kth(idx, k)]
           /\ items = before

\* repo kept the second of two items and dropped the first
C6_Witness ==
    /\ op.name = "repo" /\ Len(before) = 2 /\ Len(result) = 1
    /\ result[1] = before[2] /\ before[1] # before[2]

\* the repo() results of two item lists agree for every org and repo
C7_SameRepoResults(a, b) ==
    \A org \in Orgs, rep \in Repos : repo(a, org, rep).returned = repo(b, org, rep).returned

\* C7 as stated: after save(path) and then load(path), the collection's repo()
\* results are those of the collection before the save, for every org and repo.
C7_RoundTrip ==
    (op.name = "load" /\ file.exists) => C7_SameRepoResults(items, saved)

\* C7 amended: after save(path) and then load(path) into a collection that held
\* no items, the collection's repo() results are those of the saved collection
\* before the save, for every org and repo.
C7_RoundTripIntoEmpty ==
    (op.name = "load" /\ file.exists /\ before = <<>>) =>
        C7_SameRepoResults(items, saved)

\* two different items saved, then loaded into a new collection
C7_Witness ==
    /\ op.name = "load" /\ before = <<>> /\ Len(saved) = 2 /\ saved[1] # saved[2]
    /\ \E org \in Orgs, rep \in Repos : Len(repo(items, org, rep).returned) = 1

----------------------------------------------------------------------------
(* Claims about the scoring functions of report.py *)

\* maintenance_score was called and returned
C8_Scored == score.fn = "maintenance" /\ ~score.raised

\* C8: maintenance_score returns the very large 'never vetted' sentinel,
\* 9999999999999, for every component whose release metadata timestamp and
\* manual timestamp override are both absent, whatever its prerelease metadata.
C8_NeverVettedSentinel ==
    (score.fn = "maintenance" /\ given.release \in {-1, 0} /\ timestamps = <<>>) =>
        (~score.raised /\ score.value = PyInt(115740740, 63999))

\* the instants of given, in seconds since 2020-01-01 00:00:00 (from the calendar)
C9_Seconds == <<5180400, 5184000, 47400558, 47404158>>

\* the instant a component was last vetted at: the later of the release's
\* lastUpdated and the override, 0 when there is neither
C9_Vetted ==
    LET r == IF given.release >= 1 THEN given.release ELSE 0
        o == OverrideInstant[given.override]
    IN IF r >= o THEN r ELSE o

\* max(0, seconds from the last vetted instant to the prerelease lastUpdated),
\* 0 when the prerelease metadata has no lastUpdated
C9_Expected ==
    IF given.snapshot >= 1 /\ C9_Seconds[given.snapshot] > C9_Seconds[C9_Vetted]
    THEN C9_Seconds[given.snapshot] - C9_Seconds[C9_Vetted]
    ELSE 0

\* C9: for a component with a defined last-vetted time T = max(release
\* lastUpdated, override), maintenance_score returns max(0, seconds from T to
\* the prerelease lastUpdated): 0 when they are equal, 3600 when the prerelease
\* is 3600 seconds later, 0 when the prerelease metadata is absent or older.
\* (Override 4 is no timestamp, so it defines no T.)
C9_SecondsSinceVetted ==
    (score.fn = "maintenance" /\ C9_Vetted >= 1 /\ given.override # 4) =>
        /\ ~score.raised
        /\ score.value = PyInt(C9_Expected \div 86400, C9_Expected % 86400)

\* vetted by the release at 2020-02-29 23:00:00, prerelease updated 3600 seconds
\* later, on 2020-03-01 00:00:00: the score is 3600
C9_Witness ==
    /\ C8_Scored /\ given.release = 1 /\ given.snapshot = 2 /\ timestamps = <<>>
    /\ score.value = PyInt(0, 3600)

\* the items of the issue set that are of the record's repository
C10_Mine ==
    {n \in 1..Len(items) :
        C6_EndsWithRepo(items[n].repository_url, comp.issues.org, comp.issues.repo)}

\* how many of them carry the label
C10_Labeled(name) ==
    Cardinality({n \in C10_Mine : \E k \in 1..Len(items[n].labels) : items[n].labels[k] = name})

\* how many of them have no milestone
C10_NoMilestone == Cardinality({n \in C10_Mine : items[n].milestone = <<>>})

\* C10: support_score of a record is 10 x (open issue count - count labeled
\* 'question') + 100 x (count labeled 'bug') + 25 x (count with no milestone),
\* and 0 when the record has no issue data.
C10_SupportScore ==
    score.fn = "support" =>
        score.value =
            PyInt(0, IF ~comp.issues.present THEN 0
                     ELSE 10 * (Cardinality(C10_Mine) - C10_Labeled("question"))
                          + 100 * C10_Labeled("bug") + 25 * C10_NoMilestone)

\* how many items of the record's repository carry the marker field
C11_Marked(field) == Cardinality({n \in C10_Mine : field \in DOMAIN items[n]})

\* 1000 x (open pull-request count - draft pull-request count) of the counts
\* in the record's issues section, 0 without issue data
C11_Expected ==
    IF comp.issues.present THEN 1000 * (comp.issues.prs - comp.issues.drafts) ELSE 0

C12_NonNegative ==
    (score.fn \in {"review", "support", "maintenance", "developer"}
        /\ ~score.absent /\ ~score.raised) => score.value.hi >= 0

\* the developer holds the role
C13_Holds(role) == \E n \in 1..Len(score.roles.list) : score.roles.list[n] = role

\* the sum C13 gives: each score of a role the developer holds
C13_Sum ==
    PyAdd(PyAdd(IF C13_Holds("reviewer")
                THEN PyInt(review_score(comp) \div 86400, review_score(comp) % 86400)
                ELSE PyInt(0, 0),
                IF C13_Holds("support")
                THEN PyInt(support_score(comp) \div 86400, support_score(comp) % 86400)
                ELSE PyInt(0, 0)),
          IF C13_Holds("maintainer")
          THEN maintenance_score(comp, timestamps).value ELSE PyInt(0, 0))

\* C13: developer_score(record, developer) is absent when the developer holds
\* none of the roles reviewer, support, maintainer (a developer with no roles
\* at all included); otherwise it is the sum of review_score when reviewer,
\* support_score when support and maintenance_score when maintainer (and it
\* raises where the maintenance_score it needs raises).
C13_DeveloperScore ==
    score.fn = "developer" =>
        IF ~(C13_Holds("reviewer") \/ C13_Holds("support") \/ C13_Holds("maintainer"))
        THEN score.absent /\ ~score.raised
        ELSE /\ ~score.absent
             /\ score.raised =
                   (C13_Holds("maintainer") /\ maintenance_score(comp, timestamps).raised)
             /\ ~score.raised => score.value = C13_Sum

\* a reviewer and maintainer of a record with one open pull request, released
\* 3600 seconds before its prerelease: 1000 + 3600, with no support score in it
C13_Witness ==
    /\ score.fn = "developer" /\ score.roles = Roles(<<"reviewer", "maintainer">>)
    /\ review_score(comp) = 1000 /\ support_score(comp) > 0
    /\ maintenance_score(comp, timestamps).value = PyInt(0, 3600)
    /\ score.value = PyInt(0, 4600)

----------------------------------------------------------------------------
(* Claims about MavenComponent *)

\* the order of the lastUpdated values of the storage, 0 for no timestamp
C14_Rank(text) ==
    IF text = Sample.updated100 THEN 1
    ELSE IF text = Sample.updated200 THEN 2
    ELSE IF text = Instants[1] THEN 3
    ELSE IF text = Instants[2] THEN 4 ELSE 0

\* the stores that hold metadata for the coordinate
C14_Holding(stores) == {k \in 1..Len(stores) : stores[k].metadata.exists}

\* every metadata of the stores carries a lastUpdated timestamp
C14_Timestamped(stores) ==
    \A k \in C14_Holding(stores) : C14_Rank(stores[k].metadata.lastUpdated) > 0

\* the earliest store among those with the greatest lastUpdated, None if no
\* store holds metadata
C14_Expected(stores) ==
    IF C14_Holding(stores) = {} THEN NoPick
    ELSE Pick(CHOOSE k \in C14_Holding(stores) :
                 \A j \in C14_Holding(stores) :
                    /\ C14_Rank(stores[j].metadata.lastUpdated)
                          <= C14_Rank(stores[k].metadata.lastUpdated)
                    /\ j < k => C14_Rank(stores[j].metadata.lastUpdated)
                                   < C14_Rank(stores[k].metadata.lastUpdated),
              0)

\* C14: over stores whose metadata carry a lastUpdated timestamp, _metadata
\* returns the metadata of a store with the greatest lastUpdated, the earliest
\* such store in list order, and None when no store holds metadata; for the
\* scan of release_repos and for the scan of snapshot_repos.
C14_GreatestLastUpdated ==
    /\ (Len(mc.calls) >= 1 /\ C14_Timestamped(storage.release)) =>
          /\ ~(mc.pc = "raised" /\ Len(mc.calls) = 1)
          /\ mc.release = C14_Expected(storage.release)
    /\ (Len(mc.calls) >= 2 /\ C14_Timestamped(storage.snapshot)) =>
          /\ ~(mc.pc = "raised" /\ Len(mc.calls) = 2)
          /\ mc.snapshot = C14_Expected(storage.snapshot)

\* the first store reports 100 and the second 200: the second is returned
C14_Witness ==
    /\ Len(mc.calls) >= 1
    /\ storage.release[1].metadata = MetadataFile(Sample.updated100, Sample.release)
    /\ storage.release[2].metadata = MetadataFile(Sample.updated200, Sample.release)
    /\ mc.release = Pick(2, 0)

\* seconds from 2020-02-29 00:00:00 to the instant of a pom file's timestamp
C15_SecondsOfStamp(stamp) ==
    IF stamp = Sample.day_before THEN 0
    ELSE IF stamp = Sample.before5 THEN 86395
    ELSE IF stamp = Sample.same THEN 86400 ELSE 86411

\* seconds from 2020-02-29 00:00:00 to the instant of a lastUpdated
C15_SecondsOfUpdate(text) == IF text = Instants[1] THEN 82800 ELSE 86400

\* elapsed seconds, in absolute value, between the timestamp of the pom file
\* the component got and the lastUpdated of its prerelease metadata
C15_Elapsed ==
    LET stamp == C15_SecondsOfStamp(storage.snapshot[mc.pom.store].dir.stamped[mc.pom.file])
        updated == C15_SecondsOfUpdate(storage.snapshot[mc.snapshot.store].metadata.lastUpdated)
    IN IF stamp >= updated THEN stamp - updated ELSE updated - stamp

\* some file of the SNAPSHOT directories is within the tolerance
C15_SomeWithin ==
    \E k \in 1..Len(storage.snapshot) : \E f \in 1..Len(storage.snapshot[k].dir.stamped) :
        /\ storage.snapshot[k].dir.stamped[f] # <<>>
        /\ LET stamp == C15_SecondsOfStamp(storage.snapshot[k].dir.stamped[f])
               updated == C15_SecondsOfUpdate(
                              storage.snapshot[mc.snapshot.store].metadata.lastUpdated)
           IN stamp - updated <= 10 /\ updated - stamp <= 10

\* C15: for a -SNAPSHOT version _pom returns a manifest only from a file whose
\* embedded timestamp is within ts_allowance = 10 seconds of the metadata's
\* lastUpdated in absolute elapsed time, files whole days apart included; if
\* no file is within the tolerance the manifest is absent.
C15_WithinTolerance ==
    (mc.pc = "done" /\ is_snapshot_version(mc.pom_version)) =>
        /\ mc.pom.present => C15_Elapsed <= 10
        /\ ~C15_SomeWithin => ~mc.pom.present

\* C16: constructing MavenComponent never raises, whatever the stores hold.
C16_NeverRaises == mc.pc # "raised"

\* the metadata of the prerelease and of the release the component got
C17_Snapshot == MetadataAt(storage.snapshot, mc.snapshot)
C17_Release == MetadataAt(storage.release, mc.release)

\* the part of C17 that does not depend on how a prerelease metadata without
\* last version is treated: _pom is called only after both scans, and with a
\* prerelease last version the manifest is looked up for that version in the
\* prerelease stores only
C17_AfterBothScans ==
    /\ mc.pom.present => mc.pc = "done"
    /\ Len(mc.calls) >= 3 =>
          mc.calls[1] = "metadata:release_repos" /\ mc.calls[2] = "metadata:snapshot_repos"
    /\ (mc.pc = "done" /\ mc.snapshot.present /\ C17_Snapshot.lastVersion # <<>>) =>
          /\ mc.calls[3] = "pom:snapshot_repos"
          /\ mc.pom_version = C17_Snapshot.lastVersion
          /\ mc.pom.present => mc.pom.file >= 1

\* C17 as stated: the manifest is resolved for the release's last version only
\* when prerelease metadata is absent.
C17_ReleaseOnlyWithoutPrerelease ==
    /\ C17_AfterBothScans
    /\ (mc.pc = "done" /\ Len(mc.calls) >= 3 /\ mc.calls[3] = "pom:release_repos") =>
          ~mc.snapshot.present

\* C17 amended: the manifest is chosen only after both scans; with prerelease
\* metadata that has a last version it is resolved for that version (absent if
\* the lookup fails, no fallback to the release manifest); it is resolved for
\* the release's last version exactly when prerelease metadata is absent or has
\* no last version, and the release metadata has one.
C17_ReleaseWithoutPrereleaseVersion ==
    /\ C17_AfterBothScans
    /\ mc.pc = "done" =>
          ((Len(mc.calls) >= 3 /\ mc.calls[3] = "pom:release_repos")
             <=> /\ ~(mc.snapshot.present /\ C17_Snapshot.lastVersion # <<>>)
                 /\ mc.release.present /\ C17_Release.lastVersion # <<>>)
    /\ (mc.pc = "done" /\ Len(mc.calls) >= 3 /\ mc.calls[3] = "pom:release_repos") =>
          /\ mc.pom_version = C17_Release.lastVersion
          /\ mc.pom.present <=> \E k \in 1..Len(storage.release) :
                                    storage.release[k].dir.release_pom

\* the lookup of the prerelease manifest found no file within the tolerance,
\* and the manifest is absent although the release stores hold the release pom
C17_Witness ==
    /\ mc.pc = "done" /\ Len(mc.calls) >= 3 /\ mc.calls[3] = "pom:snapshot_repos"
    /\ ~mc.pom.present
    /\ mc.release.present /\ C17_Release.lastVersion # <<>>
    /\ storage.release[1].dir.release_pom

----------------------------------------------------------------------------
(* Claims about status.run *)

\* the names of the orgs and repositories of the issue URLs
C18_Names ==
    {"scijava", "pom-scijava", "scijava-common", "imagej", "imagej2", "fiji",
     "imglib", "imglib2", "acme", "widget"}

\* the pom is a manifest whose issuesURL is http(s)://github.com/<org>/<repo>/issues,
\* possibly followed by more
C18_Tracked(p, org, rep) ==
    /\ p.present
    /\ \E scheme \in {"https:", "http:"}, more \in {<<>>, <<"42">>} :
          p.issues = <<scheme, "", "github.com", org, rep, "issues">> \o more

\* C18: after status.run a record's issues field is populated if and only if
\* the record has a manifest whose issuesURL matches the issue-list URL pattern
\* for some (org, repo), and then for that org and repo; in every other case
\* issues is absent and review_score and support_score of the record are 0.
C18_IssuesIffTracked ==
    run.pc = "printed" =>
        \A n \in 1..Len(bom) :
            /\ bom[n].issues.present <=>
                  \E org \in C18_Names, rep \in C18_Names : C18_Tracked(bom[n].pom, org, rep)
            /\ bom[n].issues.present =>
                  C18_Tracked(bom[n].pom, bom[n].issues.org, bom[n].issues.repo)
            /\ ~bom[n].issues.present =>
                  /\ bom[n].issues = NoIssues
                  /\ review_score(bom[n]) = 0 /\ support_score(bom[n]) = 0

\* a run that ended with a record of scijava/pom-scijava with its one open
\* issue counted, and a record whose issuesURL is of another tracker
C18_Witness ==
    /\ run.pc = "printed" /\ Len(bom) = 2
    /\ bom[1].issues.present /\ bom[1].issues.org = "scijava" /\ bom[1].issues.count = 1
    /\ bom[2].pom.issues = <<"https:", "", "gitlab.com", "acme", "widget", "issues">>
    /\ ~bom[2].issues.present

\* the manifest lists a developer with an id under role reviewer or support
C19_Watched(p) ==
    \E n \in 1..Len(p.developers) :
        /\ p.developers[n].id # <<>>
        /\ p.developers[n].roles.present
        /\ \E k \in 1..Len(p.developers[n].roles.list) :
              p.developers[n].roles.list[k] \in {"reviewer", "support"}

C20_SnapshotsUsed ==
    /\ run.had_bom =>
          /\ run.process_calls = 0
          /\ run.pc = "team" => bom = run.snapshot_bom
          /\ run.pc \notin {"start", "raised"} =>
                /\ Len(bom) = Len(run.snapshot_bom)
                /\ \A n \in 1..Len(bom) : bom[n].pom = run.snapshot_bom[n].pom
    /\ run.had_issues =>
          /\ run.download_calls = 0
          /\ run.pc \in {"augment", "printed"} => items = run.snapshot_issues

\* a run over both snapshots, two records and three items, that ended without
\* a call of maven.process or of download
C20_Witness ==
    /\ run.pc = "printed" /\ run.had_bom /\ run.had_issues
    /\ run.process_calls = 0 /\ run.download_calls = 0
    /\ Len(bom) = 2 /\ Len(items) = 3

\* how a run ended, as a caller or a reader of its log can tell: the exception,
\* the message logged, and whether the record list was printed
C21_Outcome(error, logged, printed) ==
    [error |-> error, logged |-> logged, printed |-> printed]

\* C21: when release metadata, prerelease metadata and manifest of the root
\* component are all unresolved, status.run ends in a hard failure without
\* emitting a record list, and the outcome differs from that of a run whose
\* component list is empty (a metadata snapshot holding an empty array).
C21_RootFailureDistinct ==
    (run.pc \notin {"start"} /\ run.root = "unresolved") =>
        /\ run.pc = "raised" /\ run.error # "none"
        /\ C21_Outcome(run.error, run.logged, FALSE) #
              C21_Outcome(check_bom(FALSE, <<>>).error, check_bom(FALSE, <<>>).logged, FALSE)

\* the file a result of _pom stands for: its store and the timestamp in its
\* name ("" for a release pom), <<>> for None
C22_FileOf(stores, pick, version) ==
    IF ~pick.present THEN <<>>
    ELSE IF is_snapshot_version(version)
    THEN <<pick.store, stores[pick.store].dir.stamped[pick.file]>>
    ELSE <<pick.store, <<>>>>

\* the same files of a directory, enumerated in any order
C22_Enumerations(files) ==
    {[n \in 1..Len(files) |-> files[p[n]]] :
        p \in {q \in [1..Len(files) -> 1..Len(files)] :
                 \A a, b \in 1..Len(files) : q[a] = q[b] => a = b}}

\* the prerelease stores with the same contents, each directory enumerated in
\* any order
C22_SameContents(stores) ==
    {[k \in 1..Len(stores) |-> [stores[k] EXCEPT !.dir.stamped = e[k]]] :
        e \in {f \in [1..Len(stores) ->
                        UNION {C22_Enumerations(stores[k].dir.stamped) : k \in 1..Len(stores)}] :
                 \A k \in 1..Len(stores) : f[k] \in C22_Enumerations(stores[k].dir.stamped)}}

\* no prerelease manifest file is a whole day away from the metadata's
\* lastUpdated: the files _pom accepts are within the tolerance in elapsed time
C22_AcceptedWithinTolerance ==
    \A k \in 1..Len(storage.snapshot) : \A f \in 1..Len(storage.snapshot[k].dir.stamped) :
        storage.snapshot[k].dir.stamped[f] # Sample.day_before

\* C22: two runs over the same backing-store contents produce equal records:
\* the manifest a component gets does not depend on the order in which the
\* filesystem enumerates the prerelease manifest files of a directory when
\* more than one lies within the timestamp tolerance.
C22_EnumerationOrderIrrelevant ==
    (mc.pc = "done" /\ C22_AcceptedWithinTolerance) =>
        \A stores \in C22_SameContents(storage.snapshot) :
            LET again == init_pom([storage EXCEPT !.snapshot = stores], mc.release, mc.snapshot)
            IN /\ again.error = "none"
               /\ again.version = mc.pom_version
               /\ C22_FileOf(IF is_snapshot_version(again.version) THEN stores
                             ELSE storage.release, again.pick, again.version)
                  = C22_FileOf(IF is_snapshot_version(mc.pom_version) THEN storage.snapshot
                               ELSE storage.release, mc.pom, mc.pom_version)

\* the developer entry names an id and lists roles
C23_Listed(dev) ==
    /\ dev.id # <<>> /\ dev.id # <<PyNone>>
    /\ dev.roles.present /\ dev.roles.list # <<>>

\* the role listings of a manifest, in manifest order: one pair of id and role
\* for each role a developer with an id lists, as often as it is listed
C23_Listings(p) ==
    IF ~p.present THEN <<>>
    ELSE Flatten([n \in 1..Len(p.developers) |->
                    IF C23_Listed(p.developers[n])
                    THEN [k \in 1..Len(p.developers[n].roles.list) |->
                            [id |-> p.developers[n].id[1], role |-> p.developers[n].roles.list[k]]]
                    ELSE <<>>])

\* the ids listed under a role, in manifest order
C23_IdsUnder(p, role) ==
    LET listed == SelectSeq(C23_Listings(p), LAMBDA l : l.role = role)
    IN [k \in 1..Len(listed) |-> listed[k].id]

\* C23: after team derivation a record's team maps each role to exactly the
\* ids of the manifest's developers that have an id and list that role, in
\* manifest order and once per listing; developers without an id or without
\* roles contribute nothing, no role maps to an empty list, and a record
\* without a manifest has an empty team.
C23_TeamOfIdsByRole ==
    \A n \in 1..Len(bom) :
        "team" \in DOMAIN bom[n] =>
            /\ DOMAIN bom[n].team =
                  {C23_Listings(bom[n].pom)[k].role : k \in 1..Len(C23_Listings(bom[n].pom))}
            /\ \A role \in DOMAIN bom[n].team :
                  /\ bom[n].team[role] = C23_IdsUnder(bom[n].pom, role)
                  /\ bom[n].team[role] # <<>>
            /\ ~bom[n].pom.present => DOMAIN bom[n].team = {}

\* the tracker orgs derived from the records: those of the records that use
\* GitHub Issues and have a developer under role reviewer or support
C24_DerivedOrgs ==
    {org \in C18_Names :
        \E n \in 1..Len(bom), rep \in C18_Names :
            C18_Tracked(bom[n].pom, org, rep) /\ C19_Watched(bom[n].pom)}

\* every record has its team and its tracker fields, and none its statistics
C24_DerivedNotCounted(records) ==
    \A n \in 1..Len(records) :
        /\ "team" \in DOMAIN records[n] /\ "issues" \in DOMAIN records[n]
        /\ records[n].issues \in
              {NoIssues, BareIssues(records[n].issues.org, records[n].issues.repo)}

\* C24: in a run without persisted issue snapshot the download is invoked
\* exactly once, after the team and tracker fields of all records are derived
\* and before any record's issue statistics are computed, with one combined
\* query that names every derived tracker org exactly once.
C24_OneDownloadOneQuery ==
    /\ [](/\ run.download_calls <= 1
          /\ (~run.had_issues /\ run.pc \in {"augment", "printed"}) => run.download_calls = 1
          /\ run.download_calls = 1 =>
                /\ Len(run.query) = Cardinality(C24_DerivedOrgs)
                /\ \A org \in C24_DerivedOrgs :
                      Cardinality({k \in 1..Len(run.query) :
                                      run.query[k] = [op |-> "user", arg |-> org]}) = 1)
    /\ [][run'.download_calls # run.download_calls =>
             /\ run.pc = "issues" /\ run'.pc \in {"augment", "raised"}
             /\ C24_DerivedNotCounted(bom) /\ C24_DerivedNotCounted(bom')]_vars

\* a run that ended after one download asked for two orgs
C24_Witness ==
    /\ run.pc = "printed" /\ ~run.had_issues /\ run.download_calls = 1
    /\ run.orgs = <<"imagej", "scijava">>
    /\ \E n \in 1..Len(bom) : bom[n].issues.present /\ bom[n].issues.count = 1

\* the repository URL ends with '/repos/{org}/{repo}'
C25_InRepository(item, org, rep) ==
    LET u == item.repository_url
    IN Len(u) > 3 /\ u[Len(u) - 2] = "repos" /\ u[Len(u) - 1] = org /\ u[Len(u)] = rep

RECURSIVE C25_Total(_, _)
\* the sum of a histogram's counts over the keys
C25_Total(hist, keys) ==
    IF keys = {} THEN 0
    ELSE LET k == CHOOSE x \in keys : TRUE
         IN hist[k] + C25_Total(hist, keys \ {k})

\* C25: for every record whose issues field is populated, after status.run the
\* open count is the number of items of the combined issue set whose
\* repository URL ends with '/repos/{org}/{repo}' of the record, PR count and
\* draft count do not exceed it, the milestone histogram (issues without
\* milestone under 'none') sums to it, and computing the statistics leaves
\* the combined issue set unchanged.
C25_StatisticsOfRepository ==
    /\ [](run.pc = "printed" =>
            \A n \in 1..Len(bom) :
                bom[n].issues.present =>
                    LET mine == {k \in 1..Len(items) :
                                    C25_InRepository(items[k], bom[n].issues.org,
                                                     bom[n].issues.repo)}
                    IN /\ bom[n].issues.count = Cardinality(mine)
                       /\ bom[n].issues.prs <= bom[n].issues.count
                       /\ bom[n].issues.drafts <= bom[n].issues.count
                       /\ C25_Total(bom[n].issues.milestones,
                                    DOMAIN bom[n].issues.milestones) = bom[n].issues.count
                       /\ Cardinality({k \in mine : items[k].milestone = <<>>}) > 0 =>
                             /\ "none" \in DOMAIN bom[n].issues.milestones
                             /\ bom[n].issues.milestones["none"] >=
                                   Cardinality({k \in mine : items[k].milestone = <<>>}))
    /\ [][run.pc = "augment" => items' = items]_vars

\* a run over three items that ended with a record counting one draft pull
\* request and a record counting one issue without milestone
C25_Witness ==
    /\ run.pc = "printed" /\ Len(items) = 3
    /\ \E n \in 1..Len(bom) :
          /\ bom[n].issues.present /\ bom[n].issues.count = 1
          /\ bom[n].issues.prs = 1 /\ bom[n].issues.drafts = 1
    /\ \E n \in 1..Len(bom) :
          /\ bom[n].issues.present /\ bom[n].issues.count = 1
          /\ bom[n].issues.milestones = [k \in {"none"} |-> 1]

\* the records as maven.process returned them: without the fields run adds
C26_Retrieved == [n \in 1..Len(bom) |-> [pom |-> bom[n].pom]]

\* C26: in a run that retrieves live because a snapshot is missing, the
\* retrieved metadata list and the downloaded issue set are each written to
\* their snapshot location whenever the cache directory exists, and nothing is
\* written when the directory does not exist.
C26_WrittenIffDirectory ==
    /\ (run.process_calls = 1 /\ run.root = "resolved") =>
          /\ cache.dir => cache.bom_file = [exists |-> TRUE, text |-> json_dump(C26_Retrieved)]
          /\ ~cache.dir => cache.bom_file = NoFile
    /\ (run.download_calls = 1 /\ run.pc \in {"augment", "printed"}) =>
          /\ cache.dir => file = [exists |-> TRUE, text |-> json_dump(items)]
          /\ ~cache.dir => file = NoFile
    /\ ~cache.dir => (cache.bom_file = NoFile /\ file = NoFile)

\* a run that retrieved metadata and issues, wrote both snapshots and ended
C26_Witness ==
    /\ run.pc = "printed" /\ run.process_calls = 1 /\ run.download_calls = 1
    /\ cache.dir /\ cache.bom_file.exists /\ file.exists
    /\ Len(bom) = 2 /\ Len(items) = 3

\* C29: against a tracker that returns the matching open items in ascending
\* creation order, refuses to page beyond the result ceiling and applies the
\* 'created after' filter strictly, a download that ends under the page
\* ceiling has accumulated every matching item at least once, those created at
\* the timestamp of the last item of the page that triggered an overflow
\* continuation included.
C29_EveryMatchAccumulated ==
    (pc = "returned" /\ tracker = "strict" /\ fetches < max_requests) =>
        \A k \in 1..Len(matching) : \E n \in 1..Len(items) : items[n] = matching[k]

----------------------------------------------------------------------------
(* Claims about the download of a run *)

\* a page fetch of the download has failed: the last response is an error
C27_Failed == fetches > 0 /\ inflight = 0 /\ ~response.ok

\* C27: when a page fetch of the download fails, the client makes no further
\* request in that download, and status.run ends without writing the issue
\* snapshot and without emitting the record list: the items accumulated before
\* the failure are never persisted.
C27_FailureEndsRun ==
    /\ [][C27_Failed => fetches' = fetches /\ inflight' = 0 /\ ~response'.ok]_vars
    /\ [](C27_Failed => /\ run.pc \in {"download", "raised"}
                        /\ run.pc = "raised" => run.error = "download"
                        /\ ~file.exists /\ saved = <<>>)

\* the second page fetch failed after a first page with items, and the run is over
C27_Witness ==
    /\ C27_Failed /\ fetches >= 2 /\ items # <<>>
    /\ run.pc = "raised" /\ run.error = "download"

\* the last iteration range(max_requests) allows has fetched its page, and a
\* further page or continuation is pending
C28_Ceiling == i >= loop_bound /\ inflight = 0 /\ response.ok /\ url # NoUrl

\* C28: when the download stops because the maximum-page ceiling is reached
\* while a further page or continuation was still pending, it returns without
\* raising any error, and status.run goes on: it persists the accumulated set
\* and computes the statistics from it.
C28_CeilingIsNoError ==
    /\ [](C28_Ceiling =>
            /\ pc \in {"sleep", "loop", "returned"}
            /\ run.error = "none"
            /\ run.pc \in {"download", "augment", "printed"}
            /\ run.pc \in {"augment", "printed"} =>
                  /\ items = pages /\ saved = pages
                  /\ file = [exists |-> TRUE, text |-> json_dump(pages)]
            /\ run.pc = "printed" =>
                  \A n \in 1..Len(bom) :
                      bom[n].issues.present =>
                          bom[n].issues.count =
                              Cardinality({k \in 1..Len(pages) :
                                  C25_InRepository(pages[k], bom[n].issues.org,
                                                   bom[n].issues.repo)}))
    /\ [][C28_Ceiling /\ pc = "loop" => pc' = "returned"]_vars
    /\ [][C28_Ceiling /\ pc = "returned" /\ run.pc = "download" => run'.pc = "augment"]_vars

\* the download made max_requests requests with a continuation pending, and
\* the run ended with the count of the items of all its pages
C28_Witness ==
    /\ C28_Ceiling /\ fetches = max_requests /\ pc = "returned"
    /\ run.pc = "printed" /\ file.exists
    /\ \E n \in 1..Len(bom) : bom[n].issues.present /\ bom[n].issues.count = max_requests

\* C30: when no record contributes a tracker org (the derived org set is
\* empty) and no issue snapshot exists, status.run issues no request to the
\* issue tracker.
C30_NoOrgNoRequest ==
    (/\ run.pc \in {"issues", "download", "augment", "printed", "raised"}
     /\ run.error \in {"none", "download"}
     /\ run.orgs = <<>> /\ ~run.had_issues) =>
        fetches = 0 /\ inflight = 0

====
